---- MODULE Spec2Model ----
(***************************************************************************)
(* PDF viewer (src/components/PdfViewer.tsx, second PdfViewer/PdfPage      *)
(* definition, lines 1333-3119) with the annotation persistence of         *)
(* src/services/driveService.ts lines 107-186.                             *)
(*                                                                         *)
(* Numbers of the program are floating point; the model computes with      *)
(* exact rationals <<numerator, denominator>> in lowest terms.             *)
(***************************************************************************)
EXTENDS Integers, Sequences, FiniteSets, TLC

----------------------------------------------------------------------------
(* Bounds of the model *)

\* identifiers handed out in one run (annotations created)
MaxIds == 2
\* zoom / fit-width requests in one run
MaxZooms == 1
\* selection timers pending at once
MaxTimers == 1
\* rasterizations of one page in one run
MaxRenders == 2
\* presses of the save-to-Drive button in one run
MaxExports == 2
\* access tokens the parent passes anew in one run
MaxRenewals == 2

----------------------------------------------------------------------------
(* Exact rational arithmetic *)

Abs(x) == IF x < 0 THEN -x ELSE x

RECURSIVE Gcd(_, _)
Gcd(a, b) == IF b = 0 THEN a ELSE Gcd(b, a % b)

\* n/d in lowest terms with a positive denominator (d # 0)
Rat(n, d) ==
  LET s == IF d < 0 THEN -1 ELSE 1
      g == Gcd(Abs(n), Abs(d))
  IN  <<(s * n) \div g, (s * d) \div g>>

RInt(n) == <<n, 1>>
RAdd(a, b) == Rat(a[1] * b[2] + b[1] * a[2], a[2] * b[2])
RSub(a, b) == Rat(a[1] * b[2] - b[1] * a[2], a[2] * b[2])
RMul(a, b) == Rat(a[1] * b[1], a[2] * b[2])
RDiv(a, b) == Rat(a[1] * b[2], a[2] * b[1])
RLt(a, b) == a[1] * b[2] < b[1] * a[2]
RMin(a, b) == IF RLt(b, a) THEN b ELSE a

\* a unit-scale geometry given in whole points
RVec(v) == [i \in DOMAIN v |-> RInt(v[i])]
\* every coordinate multiplied / divided by s
VMul(v, s) == [i \in DOMAIN v |-> RMul(v[i], s)]
VDiv(v, s) == [i \in DOMAIN v |-> RDiv(v[i], s)]

\* the elements of sequence s except the j-th
RemoveAt(s, j) == SubSeq(s, 1, j - 1) \o SubSeq(s, j + 1, Len(s))

Range(s) == {s[i] : i \in DOMAIN s}

----------------------------------------------------------------------------
(* The document and what the user can point at *)

\* page heights at unit scale, per page (page.getSize().height)
PageHeights == <<800, 600>>
\* number of pages of the open document (pdf.numPages)
NumPages == Len(PageHeights)
Pages == 1..NumPages

\* text fragments a selection can cover, as unit-scale rectangles (x, y, w, h)
UnitRects == <<RVec(<<10, 20, 100, 15>>), RVec(<<10, 35, 60, 15>>)>>
\* a selection covers one line, or wraps over two
OneLine == <<UnitRects[1]>>
TwoLines == <<UnitRects[1], UnitRects[2]>>

\* places of a page a pointer can be at, unit scale (x, y)
UnitPoints == {RVec(<<10, 5>>), RVec(<<40, 30>>)}

\* strings are sequences of characters
\* what the user can select: <<page (0: outside every page), the string
\* window.getSelection().toString() returns, the client rectangles>>
PageSelections ==
  { <<1, <<"a", " ">>, TwoLines>>,   \* wraps over two lines of page 1
    <<2, <<"b">>, OneLine>> }
OtherSelections ==
  { <<0, <<"b">>, OneLine>>,         \* text outside the pages
    <<1, <<" ">>, OneLine>>,         \* white space only
    <<2, <<"b">>, <<>>>> }           \* no client rectangle
Selections == PageSelections \cup OtherSelections
\* where the user clicks to place a note
NotePoints == {CHOOSE pt \in UnitPoints : pt[2] = RInt(30)}
\* what the user can type into the draft note
DraftTexts == {<<>>, <<" ">>, <<"a">>}

\* the value of a property that is not set (undefined)
Undefined == <<"undefined">>

----------------------------------------------------------------------------
(* Program constants *)

\* const RENDER_SCALE = 2.0
RENDER_SCALE == RInt(2)
\* the zoom buttons step by 0.2, down while scale > 0.5, up while scale < 4
ZoomStep == Rat(1, 5)
\* variant: zoom-out is refused only at 1/10 and below
ZoomOutAboveTenth == Rat(1, 10)

ZoomOutAbove == Rat(1, 2)
ZoomInBelow == RInt(4)
\* useState(1.0); setScale(Math.min(autoScale, 2.5)); setScale(1.2)
AutoFitMax == Rat(5, 2)
AutoFitFallback == Rat(6, 5)
\* fit to width: (containerWidth - padding) / viewport.width, padding 10
\* below 768 px of window width and 80 otherwise
ContainerWidths == {310, 980}
PageWidthUnit == <<600, 600>>
MobileBelow == 768
FitScale(cw) == Rat(cw - (IF cw < MobileBelow THEN 10 ELSE 80), PageWidthUnit[1])
\* the scale set when the document has loaded
AutoFitScale(cw) == RMin(FitScale(cw), AutoFitMax)

Tools == {"cursor", "text", "ink", "eraser"}

\* highlightColor / highlightOpacity, inkColor / inkStrokeWidth / inkOpacity
HighlightColor == "#facc15"
HighlightOpacity == Rat(2, 5)
NoteColor == "#fef9c3"
InkColor == "#22c55e"
InkStrokeWidth == RInt(20)
InkOpacity == Rat(1, 2)

----------------------------------------------------------------------------
VARIABLES
  scale,          \* ViewScale: useState(1.0), set by zoom and fit-width
  zooms,          \* scale changes requested so far (bounded by MaxZooms)
  activeTool,     \* 'cursor' | 'text' | 'ink' | 'eraser'
  annotations,    \* the in-memory annotation list (useState<Annotation[]>)
  nextId,         \* the next identifier Date.now()/Math.random() yield
  domSel,         \* the browser's text selection (window.getSelection())
  selTimers,      \* pending setTimeout(.., 50) callbacks, each with its closure
  selection,      \* SelectionState | null
  isDrawing,      \* per page: useState(false)
  currentPoints,  \* per page: the points of the stroke being captured
  draftNote,      \* per page: the draft note or null
  saveJobs,       \* saveAnnotationsList calls in flight: records left to save
  isSaving,       \* useState(false)
  db,             \* IndexedDB store "annotations": the records put so far
  errLog,         \* console.error calls made by saveAnnotationsList
  shortStroke,    \* the last stroke ended with fewer than two points captured
  endIgnored,     \* per page: handlePointerUp has returned at its first line
  \* each PdfPage
  isVisible,      \* useState(false), set by the IntersectionObserver
  pageFetch,      \* pdfDoc.getPage(n): "pending", "ready" (pageProxy set) or "failed"
  getPageCalls,   \* pdfDoc.getPage(n) calls made
  fetchDeps,      \* the dependencies the fetch effect last ran with
  renderDeps,     \* the dependencies the render effect last ran with
  hasCleanup,     \* the render effect's last run returned its cleanup
  runs,           \* render() calls that have not returned
  renderTaskRef,  \* renderTaskRef.current: the task of a run, or 0 for null
  rasterCount,    \* pageProxy.render calls made
  rendered,       \* useState(false)
  hasText,        \* useState(true)
  textLayerBy,    \* the run whose text layer the page shows, 0: none
  zoomedRendered, \* a scale change has been applied to a rendered page
  cleanupThrew,   \* a cleanup of the render effect threw (viewer unmounted)
  cancelReturn,   \* what the library's RenderTask.cancel() returns
  \* export
  hasToken,       \* accessToken is set
  hasBlob,        \* originalBlob is set
  isExporting,    \* useState(false)
  exports,        \* handleSaveToDrive calls, each with its closure and position
  driveLog,       \* the calls made to the Drive API and their outcomes
  closed,         \* onBack() was called
  \* the load effect
  loadPc,         \* "download", "parse", "ready", "failed" or "auth"
  loading,        \* useState(true)
  downloadLog,    \* the downloadDriveFile calls that returned, and how
  authErrors,     \* onAuthError() calls made by the load effect
  alerts,         \* alert("Falha ao carregar PDF ...") calls
  renewals,       \* new access tokens the parent has passed (bounded)
  onAuthErrorGiven, \* the optional prop onAuthError is passed
  \* the font loader (module scope of PdfViewer.tsx and document.head)
  attemptedFonts, \* const attemptedFonts = new Set<string>()
  fontFetches,    \* the stylesheet links appended to document.head so far
  headLinks       \* per family: its link is "none", "loading", "loaded", "removed"

storeVars == <<scale, zooms, activeTool, annotations, nextId, domSel,
               selTimers, selection, isDrawing, currentPoints, draftNote,
               saveJobs, isSaving, db, errLog, shortStroke, endIgnored>>

pageVars == <<isVisible, pageFetch, getPageCalls, fetchDeps, renderDeps,
              hasCleanup, runs, renderTaskRef, rasterCount, rendered, hasText,
              textLayerBy, zoomedRendered, cleanupThrew, cancelReturn>>

exportVars == <<hasToken, hasBlob, isExporting, exports, driveLog, closed>>

loadVars == <<loadPc, loading, downloadLog, authErrors, alerts, renewals,
              onAuthErrorGiven>>

fontVars == <<attemptedFonts, fontFetches, headLinks>>

vars == <<storeVars, pageVars, exportVars, loadVars, fontVars>>

Null == [null |-> TRUE]

----------------------------------------------------------------------------
(* Strings *)

RECURSIVE TrimStart(_)
TrimStart(t) ==
  IF t # <<>> /\ Head(t) = " " THEN TrimStart(Tail(t)) ELSE t

RECURSIVE TrimEnd(_)
TrimEnd(t) ==
  IF t # <<>> /\ t[Len(t)] = " " THEN TrimEnd(SubSeq(t, 1, Len(t) - 1)) ELSE t

\* String.prototype.trim
Trim(t) == TrimEnd(TrimStart(t))

\* !text : the text is undefined or the empty string
Falsy(t) == t = Undefined \/ t = <<>>

----------------------------------------------------------------------------
(* Geometry: layout of a page on screen, and the way back *)

\* const transformScale = currentScale / renderScale
TransformScale(s) == RDiv(s, RENDER_SCALE)

\* Where content at unit-scale geometry g of a page is on screen, relative to
\* the page element: it is laid out at g * renderScale inside the block that
\* carries transform: scale(transformScale).
OnScreen(g, s) == VMul(VMul(g, RENDER_SCALE), TransformScale(s))

\* (e.clientX - rect.left) / currentScale, (r.left - pageRect.left) / scale
Normalize(offset, s) == VDiv(offset, s)

----------------------------------------------------------------------------
(* Annotation records *)

NoBBox == RVec(<<0, 0, 0, 0>>)

HighlightAnn(id, page, rect, text) ==
  [id |-> id, page |-> page, bbox |-> rect, type |-> "highlight",
   text |-> text, points |-> <<>>, color |-> HighlightColor,
   opacity |-> HighlightOpacity, strokeWidth |-> Undefined]

NoteAnn(id, page, x, y, text) ==
  [id |-> id, page |-> page, bbox |-> <<x, y, RInt(0), RInt(0)>>,
   type |-> "note", text |-> text, points |-> <<>>, color |-> NoteColor,
   opacity |-> RInt(1), strokeWidth |-> Undefined]

InkAnn(id, page, points) ==
  [id |-> id, page |-> page, bbox |-> NoBBox, type |-> "ink",
   text |-> Undefined, points |-> points, color |-> InkColor,
   opacity |-> InkOpacity, strokeWidth |-> InkStrokeWidth]

\* What loadAnnotations can return when the document is opened: nothing, or
\* records an earlier session saved (the identifiers from 101 are theirs).
PointA == CHOOSE pt \in UnitPoints : pt[2] = RInt(5)
PointB == CHOOSE pt \in UnitPoints : pt[2] = RInt(30)
\* a highlight wrapped over two lines and a note with the same text
LoadedWrapped ==
  << HighlightAnn(101, 1, UnitRects[2], <<"a">>),
     HighlightAnn(102, 1, UnitRects[1], <<"a">>),
     NoteAnn(103, 1, PointB[1], PointB[2], <<"a">>) >>
\* two strokes on one page and a highlight on the other
LoadedStrokes ==
  << InkAnn(104, 1, <<PointA, PointB>>),
     InkAnn(105, 1, <<PointB, PointA, PointB>>),
     HighlightAnn(106, 2, UnitRects[1], <<"b">>) >>
\* notes and a highlight, stored neither in page nor in vertical order
LoadedNotes ==
  << NoteAnn(107, 2, PointA[1], PointA[2], <<" ", "b">>),
     HighlightAnn(108, 1, UnitRects[1], <<"a">>),
     NoteAnn(109, 1, PointA[1], PointA[2], <<"c">>) >>

\* the points a pointer passes, in order, while a stroke is drawn
StrokePath == <<PointA, PointB>>
\* pages with a text layer; the others are scanned images
TextPages == {1}

----------------------------------------------------------------------------
(* PdfPage: page fetch, visibility and the render effect *)

\* useMemo(() => pageProxy ? pageProxy.getViewport({scale: renderScale}) : null)
PageDimensions(p, fetch) ==
  IF fetch = "ready"
  THEN <<RMul(RInt(PageWidthUnit[p]), RENDER_SCALE),
         RMul(RInt(PageHeights[p]), RENDER_SCALE)>>
  ELSE Null

\* [pdfDoc, pageNumber]
FetchDeps(p, sc) == <<"pdfDoc", p>>

\* variant: the viewer's scale among the dependencies of the render effect
RenderDepsWithScale(p, fetch, vis, sc) ==
  <<fetch = "ready", RENDER_SCALE, vis, PageDimensions(p, fetch), sc>>

\* [pageProxy, renderScale, isVisible, pageDimensions]: what the render effect
\* depends on, given the page's state and the viewer's scale sc
RenderDeps(p, fetch, vis, sc) ==
  <<fetch = "ready", RENDER_SCALE, vis, PageDimensions(p, fetch)>>

\* if (!isVisible || !pageDimensions || !pageProxy || ...) return
RenderGuard(p, fetch, vis) ==
  vis /\ PageDimensions(p, fetch) # Null /\ fetch = "ready"

\* what renderTaskRef.current.cancel() returns is the library's, the same in
\* every call: a promise (the cleanup chains .catch on it) or, as pdf.js
\* declares it, nothing
CancelReturns == {"promise", "void"}

\* renderTaskRef.current.cancel().catch(() => {}): with a task in the ref and
\* a cancel() that returns nothing, .catch is read from undefined
CleanupThrows(p, ret) ==
  hasCleanup[p] /\ renderTaskRef[p] # 0 /\ ret = "void"

\* variant: the cleanup clears the flag and the ref without cancelling the task
CleanedRunsKeepTask(p) ==
  IF hasCleanup[p]
  THEN [i \in DOMAIN runs[p] |-> [runs[p][i] EXCEPT !.active = FALSE]]
  ELSE runs[p]

\* return () => { active = false; if (renderTaskRef.current) {
\*   renderTaskRef.current.cancel()...; renderTaskRef.current = null } }
CleanedRuns(p) ==
  IF hasCleanup[p]
  THEN [i \in DOMAIN runs[p] |->
          [runs[p][i] EXCEPT
             !.active = FALSE,
             !.st = IF runs[p][i].id = renderTaskRef[p] /\ @ = "running"
                    THEN "cancelled" ELSE @]]
  ELSE runs[p]

CleanedRef(p) == IF hasCleanup[p] THEN 0 ELSE renderTaskRef[p]

\* render() up to its first await: it starts the raster task at once, or waits
\* for the cancellation of the task the ref still holds (the cleanup of the
\* run before has cleared the ref, so no reachable run takes the second way)
StartedRun(p) ==
  IF CleanedRef(p) = 0
  THEN [id |-> rasterCount[p] + 1, active |-> TRUE, pc |-> "raster",
        st |-> "running"]
  ELSE [id |-> 0, active |-> TRUE, pc |-> "cancel", st |-> "none"]

\* The effects of every page after a commit in which the pages' visibility is
\* vis, their fetch state is fetch and the viewer's scale is sc: an effect
\* whose dependencies changed runs its cleanup and then its body. A cleanup
\* that throws takes the viewer down: the error goes to the nearest error
\* boundary (or unmounts the root), every page's effect is cleaned up (each
\* task in a ref is cancelled before .catch is reached, and a ref whose
\* cleanup threw is not cleared) and no effect body runs any more.
CommitPages(vis, fetch, sc) ==
  LET changed(p) == RenderDeps(p, fetch[p], vis[p], sc) # renderDeps[p]
      starts(p)  == changed(p) /\ RenderGuard(p, fetch[p], vis[p])
      refetch(p) == FetchDeps(p, sc) # fetchDeps[p]
  IN /\ ~cleanupThrew
     /\ UNCHANGED cancelReturn
     /\ LET ret == cancelReturn IN
          IF \E p \in Pages : changed(p) /\ CleanupThrows(p, ret)
          THEN /\ cleanupThrew' = TRUE
               /\ runs' = [p \in Pages |-> CleanedRuns(p)]
               /\ renderTaskRef' = [p \in Pages |->
                    IF CleanupThrows(p, ret) THEN renderTaskRef[p]
                    ELSE CleanedRef(p)]
               /\ hasCleanup' = [p \in Pages |-> FALSE]
               /\ UNCHANGED <<fetchDeps, getPageCalls, renderDeps, rasterCount,
                              zoomedRendered>>
          ELSE
               /\ cleanupThrew' = FALSE
               /\ fetchDeps' = [p \in Pages |-> FetchDeps(p, sc)]
               /\ getPageCalls' = [p \in Pages |->
                    IF refetch(p) THEN getPageCalls[p] + 1 ELSE getPageCalls[p]]
               /\ renderDeps' = [p \in Pages |-> RenderDeps(p, fetch[p], vis[p], sc)]
               /\ hasCleanup' = [p \in Pages |->
                    IF changed(p) THEN starts(p) ELSE hasCleanup[p]]
               /\ runs' = [p \in Pages |->
                    IF ~changed(p) THEN runs[p]
                    ELSE IF starts(p) THEN Append(CleanedRuns(p), StartedRun(p))
                    ELSE CleanedRuns(p)]
               /\ renderTaskRef' = [p \in Pages |->
                    IF ~changed(p) THEN renderTaskRef[p]
                    ELSE IF starts(p) /\ CleanedRef(p) = 0 THEN rasterCount[p] + 1
                    ELSE CleanedRef(p)]
               /\ rasterCount' = [p \in Pages |->
                    IF starts(p) /\ CleanedRef(p) = 0 THEN rasterCount[p] + 1
                    ELSE rasterCount[p]]
               /\ zoomedRendered' =
                    (zoomedRendered \/ (sc # scale /\ \E p \in Pages : rendered[p]))

\* setIsVisible(entry.isIntersecting)
SetVisible(p, v) ==
  /\ isVisible[p] # v
  /\ v => rasterCount[p] < MaxRenders
  /\ isVisible' = [isVisible EXCEPT ![p] = v]
  /\ CommitPages(isVisible', pageFetch, scale)
  /\ UNCHANGED <<pageFetch, rendered, hasText, textLayerBy>>
  /\ UNCHANGED <<storeVars, exportVars, loadVars, fontVars>>

\* const page = await pdfDoc.getPage(pageNumber); if (active) setPageProxy(page)
FetchDone(p) ==
  /\ pageFetch[p] = "pending"
  /\ pageFetch' = [pageFetch EXCEPT ![p] = "ready"]
  /\ CommitPages(isVisible, pageFetch', scale)
  /\ UNCHANGED <<isVisible, rendered, hasText, textLayerBy>>
  /\ UNCHANGED <<storeVars, exportVars, loadVars, fontVars>>

\* catch (e) { console.error(`Error loading page ${pageNumber}`, e) }
FetchFail(p) ==
  /\ pageFetch[p] = "pending"
  /\ pageFetch' = [pageFetch EXCEPT ![p] = "failed"]
  /\ CommitPages(isVisible, pageFetch', scale)
  /\ UNCHANGED <<isVisible, rendered, hasText, textLayerBy>>
  /\ UNCHANGED <<storeVars, exportVars, loadVars, fontVars>>

\* variant: the run goes on whether or not its effect was cleaned up
GoesOnAlways(run) == TRUE

\* if (!active) return
GoesOn(run) == run.active

\* await task.promise resolves: the ref is cleared if it still holds the task,
\* and the run goes on to the text only if it is still active
RasterDone(p, i) ==
  /\ i \in DOMAIN runs[p]
  /\ runs[p][i].pc = "raster" /\ runs[p][i].st = "running"
  /\ renderTaskRef' = [renderTaskRef EXCEPT
       ![p] = IF @ = runs[p][i].id THEN 0 ELSE @]
  /\ runs' = [runs EXCEPT
       ![p] = IF GoesOn(runs[p][i])
              THEN [@ EXCEPT ![i] = [@ EXCEPT !.pc = "text", !.st = "done"]]
              ELSE RemoveAt(@, i)]
  /\ UNCHANGED <<isVisible, pageFetch, getPageCalls, fetchDeps, renderDeps,
                 hasCleanup, rasterCount, rendered, hasText, textLayerBy,
                 zoomedRendered, cleanupThrew, cancelReturn>>
  /\ UNCHANGED <<storeVars, exportVars, loadVars, fontVars>>

\* await task.promise rejects with RenderingCancelledException: return
RasterCancelled(p, i) ==
  /\ i \in DOMAIN runs[p]
  /\ runs[p][i].pc = "raster" /\ runs[p][i].st = "cancelled"
  /\ runs' = [runs EXCEPT ![p] = RemoveAt(@, i)]
  /\ UNCHANGED <<isVisible, pageFetch, getPageCalls, fetchDeps, renderDeps,
                 hasCleanup, renderTaskRef, rasterCount, rendered, hasText,
                 textLayerBy, zoomedRendered, cleanupThrew, cancelReturn>>
  /\ UNCHANGED <<storeVars, exportVars, loadVars, fontVars>>

\* await pageProxy.getTextContent() resolves: if (!active) return; otherwise
\* setHasText, renderCustomTextLayer, setRendered(true)
TextDone(p, i) ==
  /\ i \in DOMAIN runs[p]
  /\ runs[p][i].pc = "text"
  /\ runs' = [runs EXCEPT ![p] = RemoveAt(@, i)]
  /\ IF GoesOn(runs[p][i])
     THEN /\ hasText' = [hasText EXCEPT ![p] = (p \in TextPages)]
          /\ textLayerBy' = [textLayerBy EXCEPT ![p] = runs[p][i].id]
          /\ rendered' = [rendered EXCEPT ![p] = TRUE]
     ELSE UNCHANGED <<hasText, textLayerBy, rendered>>
  /\ UNCHANGED <<isVisible, pageFetch, getPageCalls, fetchDeps, renderDeps,
                 hasCleanup, renderTaskRef, rasterCount, zoomedRendered,
                 cleanupThrew, cancelReturn>>
  /\ UNCHANGED <<storeVars, exportVars, loadVars, fontVars>>

----------------------------------------------------------------------------
(* Zoom controls *)

\* onClick={() => scale > 0.5 && setScale(s => s - 0.2)}
ZoomOut ==
  /\ zooms < MaxZooms
  /\ zooms' = zooms + 1
  /\ scale' = IF RLt(ZoomOutAbove, scale) THEN RSub(scale, ZoomStep) ELSE scale
  /\ CommitPages(isVisible, pageFetch, scale')
  /\ UNCHANGED <<isVisible, pageFetch, rendered, hasText, textLayerBy>>
  /\ UNCHANGED <<exportVars, loadVars, fontVars, shortStroke, endIgnored>>
  /\ UNCHANGED <<activeTool, annotations, nextId, domSel, selTimers,
                 selection, isDrawing, currentPoints, draftNote, saveJobs,
                 isSaving, db, errLog>>

\* onClick={() => scale < 4 && setScale(s => s + 0.2)}
ZoomIn ==
  /\ zooms < MaxZooms
  /\ zooms' = zooms + 1
  /\ scale' = IF RLt(scale, ZoomInBelow) THEN RAdd(scale, ZoomStep) ELSE scale
  /\ CommitPages(isVisible, pageFetch, scale')
  /\ UNCHANGED <<isVisible, pageFetch, rendered, hasText, textLayerBy>>
  /\ UNCHANGED <<exportVars, loadVars, fontVars, shortStroke, endIgnored>>
  /\ UNCHANGED <<activeTool, annotations, nextId, domSel, selTimers,
                 selection, isDrawing, currentPoints, draftNote, saveJobs,
                 isSaving, db, errLog>>

\* handleFitWidth (page 1 is cached, so the await resolves at once)
FitWidth ==
  /\ zooms < MaxZooms
  /\ zooms' = zooms + 1
  /\ \E cw \in ContainerWidths : scale' = FitScale(cw)
  /\ CommitPages(isVisible, pageFetch, scale')
  /\ UNCHANGED <<isVisible, pageFetch, rendered, hasText, textLayerBy>>
  /\ UNCHANGED <<exportVars, loadVars, fontVars, shortStroke, endIgnored>>
  /\ UNCHANGED <<activeTool, annotations, nextId, domSel, selTimers,
                 selection, isDrawing, currentPoints, draftNote, saveJobs,
                 isSaving, db, errLog>>

----------------------------------------------------------------------------
(* Tool buttons *)

\* useEffect(() => { if (activeTool !== 'text') setDraftNote(null) }, [activeTool])
DraftsAfterTool(t) ==
  IF t # "text" THEN [p \in Pages |-> Null] ELSE draftNote

\* onClick={() => setActiveTool(t)}
SetActiveTool(t) ==
  /\ t # activeTool
  /\ activeTool' = t
  /\ draftNote' = DraftsAfterTool(t)
  /\ UNCHANGED <<pageVars, exportVars, loadVars, fontVars, shortStroke, endIgnored>>
  /\ UNCHANGED <<scale, zooms, annotations, nextId, domSel, selTimers,
                 selection, isDrawing, currentPoints, saveJobs, isSaving, db,
                 errLog>>

----------------------------------------------------------------------------
(* Persistence: saveAnnotationsList / saveAnnotation *)

\* saveAnnotationsList(anns) up to its first await: setIsSaving(true) and the
\* loop entered; the records are saved one after the other by SaveOk/SaveFail
StartSave(anns) ==
  /\ isSaving' = TRUE
  /\ saveJobs' = Append(saveJobs, anns)

\* saveAnnotation: const finalId = ann.id || ...; idb.put("annotations", ..)
\* (keyPath "id": a record with the same id is replaced)
PutAnnotation(store, ann) == {r \in store : r.id # ann.id} \cup {ann}

\* await saveAnnotation(uid, fileId, ann) returns for the first record left of
\* job j; after the last record the finally block runs: setIsSaving(false)
SaveOk(j) ==
  /\ j \in DOMAIN saveJobs
  /\ db' = PutAnnotation(db, Head(saveJobs[j]))
  /\ IF Len(saveJobs[j]) > 1
       THEN /\ saveJobs' = [saveJobs EXCEPT ![j] = Tail(@)]
            /\ UNCHANGED isSaving
       ELSE /\ saveJobs' = RemoveAt(saveJobs, j)
            /\ isSaving' = FALSE
  /\ UNCHANGED <<pageVars, exportVars, loadVars, fontVars, shortStroke, endIgnored>>
  /\ UNCHANGED <<scale, zooms, activeTool, annotations, nextId, domSel,
                 selTimers, selection, isDrawing, currentPoints, draftNote,
                 errLog>>

\* variant: the catch block also takes the records of the job out of the list
SaveFailDropsRecords(j) ==
  /\ j \in DOMAIN saveJobs
  /\ errLog' = errLog + 1
  /\ saveJobs' = RemoveAt(saveJobs, j)
  /\ isSaving' = FALSE
  /\ annotations' = SelectSeq(annotations,
                              LAMBDA a : a \notin Range(saveJobs[j]))
  /\ UNCHANGED <<pageVars, exportVars, loadVars, fontVars, shortStroke, endIgnored>>
  /\ UNCHANGED <<scale, zooms, activeTool, nextId, domSel, selTimers,
                 selection, isDrawing, currentPoints, draftNote, db>>

\* await saveAnnotation(..) throws: catch logs, the loop is left, finally runs
SaveFail(j) ==
  /\ j \in DOMAIN saveJobs
  /\ errLog' = errLog + 1
  /\ saveJobs' = RemoveAt(saveJobs, j)
  /\ isSaving' = FALSE
  /\ UNCHANGED <<pageVars, exportVars, loadVars, fontVars, shortStroke, endIgnored>>
  /\ UNCHANGED <<scale, zooms, activeTool, annotations, nextId, domSel,
                 selTimers, selection, isDrawing, currentPoints, draftNote,
                 db>>

----------------------------------------------------------------------------
(* Selection tracker *)

\* The user selects text (mouse, touch or keyboard): the browser's selection
\* becomes the fragments frags of page p (p = 0: outside every page) with
\* string raw.
DomSelection(p, raw, frags) == [page |-> p, raw |-> raw, frags |-> frags]

\* variant: the handler has neither of its two early returns
IgnoresEventNever(tool, inControl) == FALSE

\* if (activeTool === 'text' || activeTool === 'ink' || activeTool === 'eraser')
\*   return;
\* if (e.target instanceof Element && e.target.closest('button, input, ..'))
\*   return;
IgnoresEvent(tool, inControl) ==
  tool \in {"text", "ink", "eraser"} \/ inControl

\* handleSelectionEnd up to setTimeout, for an event whose target is inside a
\* UI control or not: the tool and the target are checked now, and the
\* callback closes over the scale of this render (the record also keeps the
\* tool and the target of its event)
HandleSelectionEnd(inControl) ==
  IF IgnoresEvent(activeTool, inControl)
    THEN selTimers' = selTimers
    ELSE selTimers' = Append(selTimers, [scale |-> scale, tool |-> activeTool,
                                         inControl |-> inControl])

\* a selection gesture on the pages ends: mouseup / touchend / keyup whose
\* target is no UI control
SelectText(p, raw, frags) ==
  /\ Len(selTimers) < MaxTimers
  /\ domSel' = DomSelection(p, raw, frags)
  /\ HandleSelectionEnd(FALSE)
  /\ UNCHANGED <<pageVars, exportVars, loadVars, fontVars, shortStroke, endIgnored>>
  /\ UNCHANGED <<scale, zooms, activeTool, annotations, nextId, selection,
                 isDrawing, currentPoints, draftNote, saveJobs, isSaving, db,
                 errLog>>

\* a selection gesture that began on page p ends over a button, an input, the
\* side panel or a note editor: the browser's selection is the text of the
\* page, the event's target is the control
ReleaseOnControl(p, raw, frags) ==
  /\ Len(selTimers) < MaxTimers
  /\ domSel # DomSelection(p, raw, frags)
  /\ domSel' = DomSelection(p, raw, frags)
  /\ HandleSelectionEnd(TRUE)
  /\ UNCHANGED <<pageVars, exportVars, loadVars, fontVars, shortStroke, endIgnored>>
  /\ UNCHANGED <<scale, zooms, activeTool, annotations, nextId, selection,
                 isDrawing, currentPoints, draftNote, saveJobs, isSaving, db,
                 errLog>>

\* a click on the page collapses the browser's selection (mouseup)
ClearDomSelection ==
  /\ Len(selTimers) < MaxTimers
  /\ domSel # Null
  /\ domSel' = Null
  /\ HandleSelectionEnd(FALSE)
  /\ UNCHANGED <<pageVars, exportVars, loadVars, fontVars, shortStroke, endIgnored>>
  /\ UNCHANGED <<scale, zooms, activeTool, annotations, nextId, selection,
                 isDrawing, currentPoints, draftNote, saveJobs, isSaving, db,
                 errLog>>

\* If less than 60px space below, show ABOVE selection
GapsBelow == {40, 100}
PopupGap == 60
PopupPosition(gap) == IF gap < PopupGap THEN "top" ELSE "bottom"

\* rects.map(r => ({x: (r.left - pageRect.left) / scale, ...})): the client
\* rectangles are those of the layout now, scale is the closure's
RelativeRects(frags, closureScale) ==
  [i \in DOMAIN frags |-> Normalize(OnScreen(frags[i], scale), closureScale)]

\* the setTimeout callback of handleSelectionEnd, 50 ms after the event
SelectionTimer ==
  /\ selTimers # <<>>
  /\ selTimers' = Tail(selTimers)
  /\ \E gap \in GapsBelow :
       selection' =
         IF domSel = Null THEN Null
         ELSE IF Len(Trim(domSel.raw)) = 0 THEN Null
         ELSE IF domSel.page = 0 THEN Null
         ELSE IF Len(domSel.frags) = 0 THEN selection
         ELSE [page |-> domSel.page,
               text |-> Trim(domSel.raw),
               relativeRects |-> RelativeRects(domSel.frags, Head(selTimers).scale),
               position |-> PopupPosition(gap)]
  /\ UNCHANGED <<pageVars, exportVars, loadVars, fontVars, shortStroke, endIgnored>>
  /\ UNCHANGED <<scale, zooms, activeTool, annotations, nextId, domSel,
                 isDrawing, currentPoints, draftNote, saveJobs, isSaving, db,
                 errLog>>

\* onClick={() => setSelection(null)}
DismissSelection ==
  /\ selection # Null
  /\ selection' = Null
  /\ UNCHANGED <<pageVars, exportVars, loadVars, fontVars, shortStroke, endIgnored>>
  /\ UNCHANGED <<scale, zooms, activeTool, annotations, nextId, domSel,
                 selTimers, isDrawing, currentPoints, draftNote, saveJobs,
                 isSaving, db, errLog>>

\* selection.relativeRects.map(rect => ({id: `temp-hl-...`, ...}))
NewHighlights(sel, firstId) ==
  [i \in DOMAIN sel.relativeRects |->
     HighlightAnn(firstId + i - 1, sel.page, sel.relativeRects[i], sel.text)]

\* createHighlight (the "Destacar" button of the selection popup)
CreateHighlight ==
  /\ selection # Null
  /\ nextId + Len(selection.relativeRects) - 1 <= MaxIds
  /\ LET newAnns == NewHighlights(selection, nextId) IN
       /\ annotations' = annotations \o newAnns
       /\ StartSave(newAnns)
  /\ nextId' = nextId + Len(selection.relativeRects)
  /\ selection' = Null
  /\ domSel' = Null
  /\ UNCHANGED <<pageVars, exportVars, loadVars, fontVars, shortStroke, endIgnored>>
  /\ UNCHANGED <<scale, zooms, activeTool, selTimers, isDrawing,
                 currentPoints, draftNote, db, errLog>>

----------------------------------------------------------------------------
(* Text tool: draft notes *)

\* handleContainerClick: a click on page p at the place pt (no annotation and
\* no note editor under the pointer)
ContainerClick(p, pt) ==
  /\ activeTool = "text"
  /\ LET at == Normalize(OnScreen(pt, scale), scale) IN
       draftNote' = [draftNote EXCEPT ![p] = [x |-> at[1], y |-> at[2], text |-> <<>>]]
  /\ UNCHANGED <<pageVars, exportVars, loadVars, fontVars, shortStroke, endIgnored>>
  /\ UNCHANGED <<scale, zooms, activeTool, annotations, nextId, domSel,
                 selTimers, selection, isDrawing, currentPoints, saveJobs,
                 isSaving, db, errLog>>

\* onChange={(e) => setDraftNote({ ...draftNote, text: e.target.value })}
TypeDraft(p, txt) ==
  /\ draftNote[p] # Null
  /\ draftNote[p].text # txt
  /\ draftNote' = [draftNote EXCEPT ![p] = [@ EXCEPT !.text = txt]]
  /\ UNCHANGED <<pageVars, exportVars, loadVars, fontVars, shortStroke, endIgnored>>
  /\ UNCHANGED <<scale, zooms, activeTool, annotations, nextId, domSel,
                 selTimers, selection, isDrawing, currentPoints, saveJobs,
                 isSaving, db, errLog>>

\* the Cancel button of the note editor: onClick={() => setDraftNote(null)}
CancelDraft(p) ==
  /\ draftNote[p] # Null
  /\ draftNote' = [draftNote EXCEPT ![p] = Null]
  /\ UNCHANGED <<pageVars, exportVars, loadVars, fontVars, shortStroke, endIgnored>>
  /\ UNCHANGED <<scale, zooms, activeTool, annotations, nextId, domSel,
                 selTimers, selection, isDrawing, currentPoints, saveJobs,
                 isSaving, db, errLog>>

\* variant: the draft is committed whatever its text is
DraftCommitsAny(d) == d # Null

\* if (draftNote && draftNote.text.trim())
DraftCommits(d) == d # Null /\ Len(Trim(d.text)) > 0

\* handleSaveDraftNote, with handleAddNote when the draft has text:
\* setAnnotations(prev => [...prev, ann]); saveAnnotationsList([ann]);
\* setActiveTool('cursor'); and then setDraftNote(null)
SaveDraftNote(p) ==
  /\ draftNote[p] # Null
  /\ IF DraftCommits(draftNote[p])
       THEN /\ nextId <= MaxIds
            /\ LET ann == NoteAnn(nextId, p, draftNote[p].x, draftNote[p].y,
                                  draftNote[p].text) IN
                 /\ annotations' = Append(annotations, ann)
                 /\ StartSave(<<ann>>)
            /\ nextId' = nextId + 1
            /\ activeTool' = "cursor"
            /\ draftNote' = [q \in Pages |-> Null]
       ELSE /\ draftNote' = [draftNote EXCEPT ![p] = Null]
            /\ UNCHANGED <<annotations, nextId, activeTool, saveJobs, isSaving>>
  /\ UNCHANGED <<pageVars, exportVars, loadVars, fontVars, shortStroke, endIgnored>>
  /\ UNCHANGED <<scale, zooms, domSel, selTimers, selection, isDrawing,
                 currentPoints, db, errLog>>

----------------------------------------------------------------------------
(* Ink tool *)

\* handlePointerDown on page p at the place pt
PointerDown(p, pt) ==
  /\ activeTool = "ink"
  /\ isDrawing' = [isDrawing EXCEPT ![p] = TRUE]
  /\ currentPoints' = [currentPoints EXCEPT
                         ![p] = <<Normalize(OnScreen(pt, scale), scale)>>]
  /\ shortStroke' = FALSE
  /\ endIgnored' = [endIgnored EXCEPT ![p] = FALSE]
  /\ UNCHANGED <<pageVars, exportVars, loadVars, fontVars>>
  /\ UNCHANGED <<scale, zooms, activeTool, annotations, nextId, domSel,
                 selTimers, selection, draftNote, saveJobs, isSaving, db,
                 errLog>>

\* handlePointerMove on page p to the place pt
PointerMove(p, pt) ==
  /\ isDrawing[p]
  /\ activeTool = "ink"
  /\ Len(currentPoints[p]) < Len(StrokePath)
  /\ currentPoints' = [currentPoints EXCEPT
                         ![p] = Append(@, Normalize(OnScreen(pt, scale), scale))]
  /\ UNCHANGED <<pageVars, exportVars, loadVars, fontVars, shortStroke, endIgnored>>
  /\ UNCHANGED <<scale, zooms, activeTool, annotations, nextId, domSel,
                 selTimers, selection, isDrawing, draftNote, saveJobs,
                 isSaving, db, errLog>>

\* variant: if (currentPoints.length > 0)
StrokeCommitsAny(points) == Len(points) > 0

\* if (currentPoints.length > 1)
StrokeCommits(points) == Len(points) > 1

\* handlePointerUp (onPointerUp and onPointerLeave) on page p, with
\* addInkAnnotation when the stroke commits
PointerUp(p) ==
  /\ isDrawing[p]
  /\ activeTool = "ink"
  /\ isDrawing' = [isDrawing EXCEPT ![p] = FALSE]
  /\ IF StrokeCommits(currentPoints[p])
       THEN /\ nextId <= MaxIds
            /\ LET ann == InkAnn(nextId, p, currentPoints[p]) IN
                 /\ annotations' = Append(annotations, ann)
                 /\ StartSave(<<ann>>)
            /\ nextId' = nextId + 1
       ELSE UNCHANGED <<annotations, nextId, saveJobs, isSaving>>
  /\ currentPoints' = [currentPoints EXCEPT ![p] = <<>>]
  /\ shortStroke' = (Len(currentPoints[p]) < 2)
  /\ UNCHANGED <<pageVars, exportVars, loadVars, fontVars, endIgnored>>
  /\ UNCHANGED <<scale, zooms, activeTool, domSel, selTimers, selection,
                 draftNote, db, errLog>>

\* handlePointerUp on page p (a pointer-up, or the pointer-leave that follows
\* one) when it returns at once: if (!isDrawing || activeTool !== 'ink') return
PointerUpIgnored(p) ==
  /\ ~isDrawing[p] \/ activeTool # "ink"
  /\ ~endIgnored[p]
  /\ endIgnored' = [endIgnored EXCEPT ![p] = TRUE]
  /\ UNCHANGED <<pageVars, exportVars, loadVars, fontVars, shortStroke>>
  /\ UNCHANGED <<scale, zooms, activeTool, annotations, nextId, domSel,
                 selTimers, selection, isDrawing, currentPoints, draftNote,
                 saveJobs, isSaving, db, errLog>>

----------------------------------------------------------------------------
(* Derived lists: the sidebar and the digest ("fichamento") *)

\* variant: the comparator without its second line
SortsBeforeByPage(a, b) == a.page < b.page

\* the comparator of both sorts:
\* if (a.page !== b.page) return a.page - b.page; return a.bbox[1] - b.bbox[1]
SortsBefore(a, b) ==
  \/ a.page < b.page
  \/ a.page = b.page /\ RLt(a.bbox[2], b.bbox[2])

\* x put into the sorted sequence s behind every element that does not sort
\* after it (Array.prototype.sort is stable)
RECURSIVE InsertSorted(_, _)
InsertSorted(x, s) ==
  IF s = <<>> THEN <<x>>
  ELSE IF SortsBefore(x, Head(s)) THEN <<x>> \o s
  ELSE <<Head(s)>> \o InsertSorted(x, Tail(s))

RECURSIVE SortAnnotations(_)
SortAnnotations(s) ==
  IF s = <<>> THEN <<>>
  ELSE InsertSorted(s[Len(s)], SortAnnotations(SubSeq(s, 1, Len(s) - 1)))

\* variant: const key = `${ann.page}|${ann.type}|${ann.text}`
DedupKeyWithKind(a) == <<a.page, a.type, a.text>>

\* const key = `${ann.page}|${ann.text}`
DedupKey(a) == <<a.page, a.text>>

\* the records of s whose key no earlier record of s has
RECURSIVE FirstOfKey(_, _)
FirstOfKey(s, seen) ==
  IF s = <<>> THEN <<>>
  ELSE IF DedupKey(Head(s)) \in seen THEN FirstOfKey(Tail(s), seen)
  ELSE <<Head(s)>> \o FirstOfKey(Tail(s), seen \cup {DedupKey(Head(s))})

\* .filter(a => (a.type === 'highlight' || a.type === 'note') && a.text
\*               && a.text.trim().length > 0)
HasDigestText(a) ==
  /\ a.type \in {"highlight", "note"}
  /\ ~Falsy(a.text)
  /\ Len(Trim(a.text)) > 0

\* fichamentoText: uniqueAnnotations, the records the digest prints
UniqueAnnotations(anns) ==
  FirstOfKey(SortAnnotations(SelectSeq(anns, HasDigestText)), {})

\* const [pageOffset, setPageOffset] = useState(1)
PageOffset == 1

\* fichamentoText: .map(a => `Página ${a.page + pageOffset - 1}\n${a.text}`),
\* the entries that .join('\n\n') concatenates
FichamentoText(anns) ==
  LET u == UniqueAnnotations(anns) IN
    [i \in DOMAIN u |-> [pagina |-> u[i].page + PageOffset - 1, text |-> u[i].text]]

\* variant: no record is listed without the duplicate check
AlwaysListedNone(a) == FALSE

\* if (ann.type === 'ink' || !ann.text) { uniqueList.push(ann); return; }
AlwaysListed(a) == a.type = "ink" \/ Falsy(a.text)

\* sidebarAnnotations: ink and records without text are always listed, the
\* others once per page and text
RECURSIVE SidebarUnique(_, _)
SidebarUnique(s, seen) ==
  IF s = <<>> THEN <<>>
  ELSE IF AlwaysListed(Head(s))
    THEN <<Head(s)>> \o SidebarUnique(Tail(s), seen)
  ELSE IF DedupKey(Head(s)) \in seen THEN SidebarUnique(Tail(s), seen)
  ELSE <<Head(s)>> \o SidebarUnique(Tail(s), seen \cup {DedupKey(Head(s))})

SidebarAnnotations(anns) == SidebarUnique(SortAnnotations(anns), {})

----------------------------------------------------------------------------
(* Deleting *)

\* variant: every kind is deleted by identifier
HandleDeleteById(anns, target) ==
  SelectSeq(anns, LAMBDA a : a.id # target.id)

\* variant: every kind is deleted by page, text and kind
HandleDeleteByText(anns, target) ==
  SelectSeq(anns, LAMBDA a : ~(/\ a.page = target.page
                               /\ a.text = target.text
                               /\ a.type = target.type))

\* variant: the earlier handleDeleteAnnotation, in which only ink and records
\* without text are deleted by identifier
HandleDeleteEarlier(anns, target) ==
  IF target.type = "ink" \/ Falsy(target.text)
    THEN SelectSeq(anns, LAMBDA a : a.id # target.id)
    ELSE SelectSeq(anns, LAMBDA a : ~(/\ a.page = target.page
                                      /\ a.text = target.text
                                      /\ a.type = target.type))

\* handleDeleteAnnotation: the list after deleting target
HandleDeleteAnnotation(anns, target) ==
  IF target.type = "ink" \/ target.type = "note" \/ Falsy(target.text)
    THEN SelectSeq(anns, LAMBDA a : a.id # target.id)
    ELSE SelectSeq(anns, LAMBDA a : ~(/\ a.page = target.page
                                      /\ a.text = target.text
                                      /\ a.type = target.type))

\* a click with the eraser on a rendered stroke, highlight or note of the
\* page: if (activeTool === 'eraser' && ann.id) onDeleteAnnotation(ann)
EraserClick(i) ==
  /\ i \in DOMAIN annotations
  /\ activeTool = "eraser"
  /\ annotations' = HandleDeleteAnnotation(annotations, annotations[i])
  /\ UNCHANGED <<pageVars, exportVars, loadVars, fontVars, shortStroke, endIgnored>>
  /\ UNCHANGED <<scale, zooms, activeTool, nextId, domSel, selTimers,
                 selection, isDrawing, currentPoints, draftNote, saveJobs,
                 isSaving, db, errLog>>

\* the delete button of entry i of the sidebar list, whatever the tool
SidebarDelete(i) ==
  /\ i \in DOMAIN SidebarAnnotations(annotations)
  /\ annotations' = HandleDeleteAnnotation(annotations,
                                            SidebarAnnotations(annotations)[i])
  /\ UNCHANGED <<pageVars, exportVars, loadVars, fontVars, shortStroke, endIgnored>>
  /\ UNCHANGED <<scale, zooms, activeTool, nextId, domSel, selTimers,
                 selection, isDrawing, currentPoints, draftNote, saveJobs,
                 isSaving, db, errLog>>

----------------------------------------------------------------------------
(* Export: handleSaveToDrive *)

NoteBoxWidth == RInt(150)
NoteBoxHeight == RInt(50)
NoteBoxRise == RInt(20)
DefaultThickness == RInt(3)

\* variant: const pdfY = height - rectY
PdfYFromTop(height, rectY, rectH) == RSub(height, rectY)

\* const pdfY = height - rectY - rectH
PdfY(height, rectY, rectH) == RSub(RSub(height, rectY), rectH)

\* start: { x: p1[0], y: height - p1[1] }
PdfPoint(height, pt) == <<pt[1], RSub(height, pt[2])>>

\* What the body of the flatten loop draws for one annotation, on a document
\* whose pages have the heights given
FlattenAnn(a, heights) ==
  IF a.page > Len(heights) THEN <<>>
  ELSE LET height == RInt(heights[a.page])
       IN IF a.type = "highlight"
          THEN << [op |-> "rect", page |-> a.page, x |-> a.bbox[1],
                   y |-> PdfY(height, a.bbox[2], a.bbox[4]),
                   width |-> a.bbox[3], height |-> a.bbox[4]] >>
          ELSE IF a.type = "note" /\ ~Falsy(a.text)
          THEN << [op |-> "rect", page |-> a.page, x |-> a.bbox[1],
                   y |-> RSub(RSub(height, a.bbox[2]), NoteBoxRise),
                   width |-> NoteBoxWidth, height |-> NoteBoxHeight] >>
          ELSE IF a.type = "ink" /\ Len(a.points) > 0
          THEN [i \in 1..(Len(a.points) - 1) |->
                  [op |-> "line", page |-> a.page,
                   start |-> PdfPoint(height, a.points[i]),
                   end |-> PdfPoint(height, a.points[i + 1]),
                   thickness |-> IF a.strokeWidth = Undefined
                                 THEN DefaultThickness ELSE a.strokeWidth]]
          ELSE <<>>

\* for (const ann of annotations) { ... }: the drawing calls, annotation by
\* annotation
Flatten(anns, heights) == [i \in DOMAIN anns |-> FlattenAnn(anns[i], heights)]

\* variant: handleSaveToDrive without its first guard
ExportRefusedNever(token, blob) == FALSE

\* if (!accessToken || !originalBlob) { alert("Erro: ..."); return; }
ExportRefused(token, blob) == ~token \/ ~blob

\* The "Salvar" button: the guards and the confirmation, then the call goes on
\* with the annotations of the render it was made in.
SaveToDrive(confirm) ==
  /\ ~closed
  /\ Len(exports) < MaxExports
  /\ LET pc == IF ExportRefused(hasToken, hasBlob) THEN "refused"
               ELSE IF ~confirm THEN "declined" ELSE "load"
     IN /\ exports' = Append(exports,
             [pc |-> pc, anns |-> annotations, drawn |-> <<>>])
        /\ isExporting' = (isExporting \/ pc = "load")
  /\ UNCHANGED <<hasToken, hasBlob, driveLog, closed>>
  /\ UNCHANGED <<storeVars, pageVars, loadVars, fontVars>>

\* originalBlob.arrayBuffer(), PDFDocument.load, the flatten loop and
\* pdfDoc.save(); then uploadFileToDrive is called
ExportFlattened(e) ==
  /\ e \in DOMAIN exports
  /\ exports[e].pc = "load"
  /\ hasBlob
  /\ exports' = [exports EXCEPT ![e] =
       [@ EXCEPT !.pc = "upload", !.drawn = Flatten(exports[e].anns, PageHeights)]]
  /\ driveLog' = Append(driveLog, [op |-> "upload", by |-> e, ok |-> TRUE])
  /\ UNCHANGED <<hasToken, hasBlob, isExporting, closed>>
  /\ UNCHANGED <<storeVars, pageVars, loadVars, fontVars>>

\* the bytes cannot be read, loaded or saved:
\* catch (err) { console.error; alert } finally { setIsExporting(false) }
ExportFailed(e) ==
  /\ e \in DOMAIN exports
  /\ exports[e].pc = "load"
  /\ exports' = [exports EXCEPT ![e] = [@ EXCEPT !.pc = "failed"]]
  /\ isExporting' = FALSE
  /\ UNCHANGED <<hasToken, hasBlob, driveLog, closed>>
  /\ UNCHANGED <<storeVars, pageVars, loadVars, fontVars>>

\* variant: uploadFileToDrive without if (!res.ok) throw
UploadNeverThrows(ok) == FALSE

\* uploadFileToDrive: if (!res.ok) { ...; throw new Error(...) }
UploadThrows(ok) == ~ok

\* deleteDriveFile: if (!res.ok) { ...; throw new Error(...) }
DeleteThrows(ok) == ~ok

\* The POST of uploadFileToDrive is answered, res.ok being ok.  If the call
\* returns, deleteDriveFile is called; if it throws, catch and finally run.
UploadResponded(e, ok) ==
  /\ e \in DOMAIN exports
  /\ exports[e].pc = "upload"
  /\ IF UploadThrows(ok)
       THEN /\ exports' = [exports EXCEPT ![e] = [@ EXCEPT !.pc = "failed"]]
            /\ driveLog' = Append(driveLog,
                 [op |-> "uploadResponse", by |-> e, ok |-> ok])
            /\ isExporting' = FALSE
       ELSE /\ exports' = [exports EXCEPT ![e] = [@ EXCEPT !.pc = "delete"]]
            /\ driveLog' = driveLog \o
                 << [op |-> "uploadResponse", by |-> e, ok |-> ok],
                    [op |-> "delete", by |-> e, ok |-> TRUE] >>
            /\ UNCHANGED isExporting
  /\ UNCHANGED <<hasToken, hasBlob, closed>>
  /\ UNCHANGED <<storeVars, pageVars, loadVars, fontVars>>

\* The DELETE of deleteDriveFile is answered, res.ok being ok.  If the call
\* returns: alert, onBack(); in both cases the finally block runs.
DeleteResponded(e, ok) ==
  /\ e \in DOMAIN exports
  /\ exports[e].pc = "delete"
  /\ exports' = [exports EXCEPT
       ![e] = [@ EXCEPT !.pc = IF DeleteThrows(ok) THEN "failed" ELSE "done"]]
  /\ driveLog' = Append(driveLog,
       [op |-> "deleteResponse", by |-> e, ok |-> ok])
  /\ closed' = (closed \/ ~DeleteThrows(ok))
  /\ isExporting' = FALSE
  /\ UNCHANGED <<hasToken, hasBlob>>
  /\ UNCHANGED <<storeVars, pageVars, loadVars, fontVars>>

----------------------------------------------------------------------------
(* The font loader: tryAutoDownloadFont and the check in                     *)
(* renderCustomTextLayer.  A font name is the sequence of its characters.    *)

\* fontData.fontFamily of the text items of a document: subset prefixes,
\* style suffixes, quotes, fonts of the system and a generic family
RawFontNames ==
  { <<"A", "B", "+", "L", "a", "t", "o", "-", "B", "o", "l", "d">>,
    <<"L", "a", "t", "o", "-", "I", "t", "a", "l", "i", "c">>,
    <<"'", "L", "a", "t", "o", "'">>,
    <<"O", "s", "w", "a", "l", "d">>,
    <<"X", "Y", "+", "L", "o", "r", "a">>,
    <<"L", "o", "r", "a", "-", "B", "o", "l", "d">>,
    <<"A", "r", "i", "a", "l">>,
    <<"A", "r", "i", "a", "l", "M", "T">>,
    <<"t", "i", "m", "e", "s", "-", "R", "o", "m", "a", "n">>,
    <<"s", "a", "n", "s", "-", "s", "e", "r", "i", "f">> }

\* const skipList = ['Arial', 'Helvetica', 'Times', 'Courier', 'Verdana',
\*                   'Georgia', 'sans-serif', 'serif', 'monospace']
SkipList ==
  { <<"A", "r", "i", "a", "l">>,
    <<"H", "e", "l", "v", "e", "t", "i", "c", "a">>,
    <<"T", "i", "m", "e", "s">>,
    <<"C", "o", "u", "r", "i", "e", "r">>,
    <<"V", "e", "r", "d", "a", "n", "a">>,
    <<"G", "e", "o", "r", "g", "i", "a">>,
    <<"s", "a", "n", "s", "-", "s", "e", "r", "i", "f">>,
    <<"s", "e", "r", "i", "f">>,
    <<"m", "o", "n", "o", "s", "p", "a", "c", "e">> }

LowerCase ==
  "A" :> "a" @@
  "B" :> "b" @@
  "C" :> "c" @@
  "D" :> "d" @@
  "E" :> "e" @@
  "F" :> "f" @@
  "G" :> "g" @@
  "H" :> "h" @@
  "I" :> "i" @@
  "J" :> "j" @@
  "K" :> "k" @@
  "L" :> "l" @@
  "M" :> "m" @@
  "N" :> "n" @@
  "O" :> "o" @@
  "P" :> "p" @@
  "Q" :> "q" @@
  "R" :> "r" @@
  "S" :> "s" @@
  "T" :> "t" @@
  "U" :> "u" @@
  "V" :> "v" @@
  "W" :> "w" @@
  "X" :> "x" @@
  "Y" :> "y" @@
  "Z" :> "z"

\* s.toLowerCase()
ToLowerCase(s) ==
  [i \in DOMAIN s |-> IF s[i] \in DOMAIN LowerCase THEN LowerCase[s[i]] ELSE s[i]]

\* s.includes(t)
StrIncludes(s, t) ==
  \E i \in 0..(Len(s) - Len(t)) : SubSeq(s, i + 1, i + Len(t)) = t

\* rawFontName.replace(/['"]/g, '')
RemoveQuotes(s) == SelectSeq(s, LAMBDA c : c \notin {"'", "\""})

\* s.split(sep)[0]
FirstSegment(s, sep) ==
  LET at == {i \in DOMAIN s : s[i] = sep}
  IN IF at = {} THEN s
     ELSE SubSeq(s, 1, (CHOOSE i \in at : \A j \in at : i <= j) - 1)

\* s.split(sep)[1], for s that includes sep
SecondSegment(s, sep) ==
  LET at == {i \in DOMAIN s : s[i] = sep}
      first == CHOOSE i \in at : \A j \in at : i <= j
  IN FirstSegment(SubSeq(s, first + 1, Len(s)), sep)

\* let cleanName = rawFontName.replace(/['"]/g, '').trim();
\* if (cleanName.includes('+')) cleanName = cleanName.split('+')[1];
CleanName(raw) ==
  LET clean == Trim(RemoveQuotes(raw))
  IN IF StrIncludes(clean, <<"+">>) THEN SecondSegment(clean, "+") ELSE clean

\* const familyName = cleanName.split('-')[0]
FamilyName(raw) == FirstSegment(CleanName(raw), "-")

\* skipList.some(s => familyName.toLowerCase().includes(s.toLowerCase()))
InSkipList(name) ==
  \E s \in SkipList : StrIncludes(ToLowerCase(name), ToLowerCase(s))

\* the family names the document can lead to
Families == {FamilyName(raw) : raw \in RawFontNames}

\* renderCustomTextLayer finds document.fonts.check(`12px "${fontFamily}"`)
\* false for a text item whose font is raw and calls tryAutoDownloadFont(raw),
\* with navigator.onLine as given
TryAutoDownloadFont(raw, online) ==
  /\ LET familyName == FamilyName(raw) IN
       IF ~online \/ familyName \in attemptedFonts \/ InSkipList(familyName)
         THEN UNCHANGED fontVars
         ELSE /\ attemptedFonts' = attemptedFonts \cup {familyName}
              /\ fontFetches' = Append(fontFetches,
                                       [family |-> familyName, raw |-> raw])
              /\ headLinks' = [headLinks EXCEPT ![familyName] = "loading"]
  /\ UNCHANGED <<storeVars, pageVars, exportVars, loadVars>>

\* link.onload
FontLoaded(f) ==
  /\ headLinks[f] = "loading"
  /\ headLinks' = [headLinks EXCEPT ![f] = "loaded"]
  /\ UNCHANGED <<attemptedFonts, fontFetches>>
  /\ UNCHANGED <<storeVars, pageVars, exportVars, loadVars>>

\* link.onerror: console.warn and link.remove()
FontFailed(f) ==
  /\ headLinks[f] = "loading"
  /\ headLinks' = [headLinks EXCEPT ![f] = "removed"]
  /\ UNCHANGED <<attemptedFonts, fontFetches>>
  /\ UNCHANGED <<storeVars, pageVars, exportVars, loadVars>>

----------------------------------------------------------------------------
(* Loading the document: downloadDriveFile and the load effect *)

\* the answers of the Drive API to the download: the status, and the
\* error.message of the JSON body (undefined: no such field, or no JSON)
HttpStatuses == {200, 401, 403, 500}
ApiMessages == {Undefined, <<"Invalid Credentials">>, <<"Error ", "401">>}

\* messages are sequences of pieces, so that includes() can be computed
Includes(msg, piece) == \E k \in DOMAIN msg : msg[k] = piece

\* res.ok
ResOk(status) == status \in 200..299

Msg403 ==
  <<"Permissão negada (", "403", "). Verifique se a API do Drive está ativada.">>
MsgErroNoDownload == <<"Erro no download">>
MsgFalhaNoDownload == <<"Falha no download do Drive">>
MsgInvalidPdf == <<"Invalid PDF structure.">>
MsgUnauthorized == <<"Unauthorized">>

\* throw new Error(err.error?.message || "Erro no download"), inside the try
ThrownInTry(apiMsg) == IF Falsy(apiMsg) THEN MsgErroNoDownload ELSE apiMsg

\* } catch { throw new Error("Falha no download do Drive"); }: the catch has
\* no binding and replaces whatever the try block threw, its own throw too
Rethrown(inner) == MsgFalhaNoDownload

\* downloadDriveFile: the blob, or the message of the Error it throws
DownloadDriveFile(status, apiMsg) ==
  IF ResOk(status) THEN [ok |-> TRUE, message |-> Undefined]
  ELSE IF status = 403 THEN [ok |-> FALSE, message |-> Msg403]
  ELSE [ok |-> FALSE, message |-> Rethrown(ThrownInTry(apiMsg))]

\* err.message === "Unauthorized" || (err.message && err.message.includes("401"))
IsAuthError(msg) == msg = MsgUnauthorized \/ Includes(msg, "401")

\* the catch and finally blocks of init(), the component being mounted
LoadCatch(msg) ==
  /\ IF IsAuthError(msg) /\ onAuthErrorGiven
       THEN /\ authErrors' = authErrors + 1
            /\ loadPc' = "auth"
            /\ UNCHANGED alerts
       ELSE /\ alerts' = alerts + 1
            /\ loadPc' = "failed"
            /\ UNCHANGED authErrors
  /\ loading' = FALSE

\* await downloadDriveFile(accessToken, fileId) returns or throws; on success
\* setLoading(true) and setOriginalBlob(blob)
DownloadResponded(status, apiMsg) ==
  /\ loadPc = "download"
  /\ LET res == DownloadDriveFile(status, apiMsg) IN
       /\ downloadLog' = Append(downloadLog,
                                [status |-> status, message |-> res.message])
       /\ IF res.ok
            THEN /\ loadPc' = "parse"
                 /\ loading' = TRUE
                 /\ hasBlob' = TRUE
                 /\ UNCHANGED <<authErrors, alerts>>
            ELSE /\ LoadCatch(res.message)
                 /\ UNCHANGED hasBlob
  /\ UNCHANGED <<renewals, onAuthErrorGiven>>
  /\ UNCHANGED <<hasToken, isExporting, exports, driveLog, closed>>
  /\ UNCHANGED <<storeVars, pageVars, fontVars>>

\* loadAnnotations(uid, fileId): the records of the local store
LoadAnnotations(store) ==
  CHOOSE s \in {<<>>, LoadedWrapped, LoadedStrokes, LoadedNotes} :
    Range(s) = store

\* getDocument(..).promise resolves: setPdfDoc, setAnnotations(existingAnns)
\* and the auto-fit scale (or its fallback); finally setLoading(false)
ParseDone(sc) ==
  /\ loadPc = "parse"
  /\ loadPc' = "ready"
  /\ loading' = FALSE
  /\ annotations' = LoadAnnotations(db)
  /\ scale' = sc
  /\ UNCHANGED <<downloadLog, authErrors, alerts, renewals, onAuthErrorGiven>>
  /\ UNCHANGED <<zooms, activeTool, nextId, domSel, selTimers, selection,
                 isDrawing, currentPoints, draftNote, saveJobs, isSaving, db,
                 errLog, shortStroke, endIgnored>>
  /\ UNCHANGED <<pageVars, exportVars, fontVars>>

\* getDocument(..).promise rejects: the bytes are no PDF
ParseFailed ==
  /\ loadPc = "parse"
  /\ LoadCatch(MsgInvalidPdf)
  /\ UNCHANGED <<downloadLog, renewals, onAuthErrorGiven>>
  /\ UNCHANGED <<storeVars, pageVars, exportVars, fontVars>>

\* variant: the effect has no early return for a document that is loaded
SkipsReloadNever(blob, doc) == FALSE

\* if (originalBlob && pdfDoc) return
SkipsReload(blob, doc) == blob /\ doc

\* the parent passes another accessToken: the effect runs again (its
\* dependencies are [accessToken, fileId, uid, fileBlob]); it reuses
\* originalBlob if there is one and returns at once if the document is ready
\* (finally: setLoading(false))
AccessTokenRenewed ==
  /\ renewals < MaxRenewals
  /\ loadPc \in {"ready", "failed", "auth"}
  /\ renewals' = renewals + 1
  /\ IF hasBlob
       THEN IF SkipsReload(hasBlob, loadPc = "ready")
              THEN UNCHANGED loadPc /\ loading' = FALSE
              ELSE loadPc' = "parse" /\ loading' = TRUE
       ELSE loadPc' = "download" /\ UNCHANGED loading
  /\ UNCHANGED <<downloadLog, authErrors, alerts, onAuthErrorGiven>>
  /\ UNCHANGED <<storeVars, pageVars, exportVars, fontVars>>

----------------------------------------------------------------------------
(* Initial states *)

\* the scale the load effect fits to the container
InitialScale == AutoFitScale(CHOOSE cw \in ContainerWidths : cw >= MobileBelow)

\* the pages are mounted: each has asked for its page, none is visible yet;
\* the library's cancel() returns one of rets
InitPagesWith(rets) ==
  /\ isVisible = [p \in Pages |-> FALSE]
  /\ pageFetch = [p \in Pages |-> "pending"]
  /\ getPageCalls = [p \in Pages |-> 1]
  /\ fetchDeps = [p \in Pages |-> FetchDeps(p, InitialScale)]
  /\ renderDeps = [p \in Pages |-> RenderDeps(p, "pending", FALSE, InitialScale)]
  /\ hasCleanup = [p \in Pages |-> FALSE]
  /\ runs = [p \in Pages |-> <<>>]
  /\ renderTaskRef = [p \in Pages |-> 0]
  /\ rasterCount = [p \in Pages |-> 0]
  /\ rendered = [p \in Pages |-> FALSE]
  /\ hasText = [p \in Pages |-> TRUE]
  /\ textLayerBy = [p \in Pages |-> 0]
  /\ zoomedRendered = FALSE
  /\ cleanupThrew = FALSE
  /\ cancelReturn \in rets

\* where no page is rendered cancel() is never called
InitPages == InitPagesWith({"void"})

\* a document opened from Drive, or a local file (no access token)
InitExport(tokens, blobs) ==
  /\ hasToken \in tokens
  /\ hasBlob \in blobs
  /\ isExporting = FALSE
  /\ exports = <<>>
  /\ driveLog = <<>>
  /\ closed = FALSE

\* the viewer's own state once the load effect has ended, with the scale sc
InitStore(stores, sc) ==
  /\ scale = sc
  /\ zooms = 0
  /\ activeTool = "cursor"
  /\ annotations \in stores
  /\ nextId = 1
  /\ domSel = Null
  /\ selTimers = <<>>
  /\ selection = Null
  /\ isDrawing = [p \in Pages |-> FALSE]
  /\ currentPoints = [p \in Pages |-> <<>>]
  /\ draftNote = [p \in Pages |-> Null]
  /\ saveJobs = <<>>
  /\ isSaving = FALSE
  /\ db = Range(annotations)
  /\ errLog = 0
  /\ shortStroke = FALSE
  /\ endIgnored = [p \in Pages |-> FALSE]

\* no font has been looked for yet
InitFont ==
  /\ attemptedFonts = {}
  /\ fontFetches = <<>>
  /\ headLinks = [f \in Families |-> "none"]

\* the load effect has ended at position pc, after the downloads of log
InitLoad(pc, log, handlers) ==
  /\ loadPc = pc
  /\ loading = (pc \in {"download", "parse"})
  /\ downloadLog = log
  /\ authErrors = 0
  /\ alerts = IF pc = "failed" THEN 1 ELSE 0
  /\ renewals = 0
  /\ onAuthErrorGiven \in handlers

\* the document was loaded: originalBlob is set, the annotations are those of
\* loadAnnotations and the scale is the auto-fit scale
InitWith(stores, tokens) ==
  /\ InitPages
  /\ InitExport(tokens, {TRUE})
  /\ InitStore(stores, InitialScale)
  /\ InitLoad("ready",
              IF hasToken THEN <<[status |-> 200, message |-> Undefined]>>
              ELSE <<>>, {TRUE})
  /\ InitFont

\* const [scale, setScale] = useState(1.0)
DefaultScale == RInt(1)

\* the download failed ("Falha ao carregar PDF"): the toolbar is shown with
\* no document, no originalBlob and no annotations, at the scale of useState
\* (no page component is mounted, so the page variables stand for nothing)
InitLoadFailed ==
  /\ InitPages
  /\ InitExport({TRUE}, {FALSE})
  /\ InitStore({<<>>}, DefaultScale)
  /\ InitLoad("failed",
              <<[status |-> 500, message |-> MsgFalhaNoDownload]>>, {TRUE})
  /\ InitFont

\* the viewer is mounted for a Drive file and waits for its download; the
\* parent passes onAuthError or not
InitLoading ==
  /\ InitPages
  /\ InitExport({TRUE}, {FALSE})
  /\ InitStore({<<>>}, DefaultScale)
  /\ InitLoad("download", <<>>, BOOLEAN)
  /\ InitFont

\* a document from Drive that has no annotations yet
Init == InitWith({<<>>}, {TRUE})

\* the scales the zoom buttons lead to, 0.2 at a time, from the auto-fit
\* scales 1/2 (mobile) and 3/2 and from the fallback 6/5: the tenths from 2/5
\* to 41/10, and, since scale is a double and 0.2 is not one exactly, values
\* a little above or below a tenth (3/2 taken down five times is a little
\* above 1/2, which the zoom-out button takes to a little above 3/10; 6/5
\* taken up is a little below 4 after fourteen times); the little is 1/1000
ZoomScales ==
  {Rat(100 * k, 1000) : k \in 4..41}
    \cup {Rat(100 * k + 1, 1000) : k \in 3..41}
    \cup {Rat(100 * k - 1, 1000) : k \in 4..42}

\* the loaded document after any number of zoom requests
InitZoom ==
  /\ InitPages
  /\ InitExport({TRUE}, {TRUE})
  /\ \E sc \in ZoomScales : InitStore({<<>>}, sc)
  /\ InitLoad("ready", <<[status |-> 200, message |-> Undefined]>>, {TRUE})
  /\ InitFont

\* the same document, with either library behaviour
InitRender ==
  /\ InitPagesWith(CancelReturns)
  /\ InitExport({TRUE}, {TRUE})
  /\ InitStore({<<>>}, InitialScale)
  /\ InitLoad("ready", <<[status |-> 200, message |-> Undefined]>>, {TRUE})
  /\ InitFont

----------------------------------------------------------------------------
(* Specifications.  The viewer's handlers are grouped by what the user is    *)
(* doing; a specification starts with a document that has no annotations,   *)
(* or with the annotations an earlier session left.                          *)

SelectionSteps(sels) ==
  \/ \E sel \in sels : SelectText(sel[1], sel[2], sel[3])
  \/ ClearDomSelection
  \/ SelectionTimer
  \/ DismissSelection
  \/ CreateHighlight

NoteSteps ==
  \/ \E p \in Pages, pt \in NotePoints : ContainerClick(p, pt)
  \/ \E p \in Pages, txt \in DraftTexts : TypeDraft(p, txt)
  \/ \E p \in Pages : CancelDraft(p)
  \/ \E p \in Pages : SaveDraftNote(p)

InkSteps ==
  \/ \E p \in Pages : PointerDown(p, StrokePath[1])
  \/ \E p \in Pages : Len(currentPoints[p]) < Len(StrokePath)
       /\ PointerMove(p, StrokePath[Len(currentPoints[p]) + 1])
  \/ \E p \in Pages : PointerUp(p)

DeleteSteps ==
  \/ \E i \in DOMAIN annotations : EraserClick(i)
  \/ \E i \in DOMAIN annotations : SidebarDelete(i)

ZoomSteps ==
  \/ ZoomOut
  \/ ZoomIn
  \/ FitWidth

SaveSteps ==
  \/ \E j \in DOMAIN saveJobs : SaveOk(j)
  \/ \E j \in DOMAIN saveJobs : SaveFail(j)

ToolSteps(tools) == \E t \in tools : SetActiveTool(t)

PageSteps ==
  \/ \E p \in Pages, v \in BOOLEAN : SetVisible(p, v)
  \/ \E p \in Pages : FetchDone(p)
  \/ \E p \in Pages : FetchFail(p)
  \/ \E p \in Pages : \E i \in DOMAIN runs[p] : RasterDone(p, i)
  \/ \E p \in Pages : \E i \in DOMAIN runs[p] : RasterCancelled(p, i)
  \/ \E p \in Pages : \E i \in DOMAIN runs[p] : TextDone(p, i)

ExportSteps ==
  \/ \E confirm \in BOOLEAN : SaveToDrive(confirm)
  \/ \E e \in DOMAIN exports : ExportFlattened(e)
  \/ \E e \in DOMAIN exports : ExportFailed(e)
  \/ \E e \in DOMAIN exports, ok \in BOOLEAN : UploadResponded(e, ok)
  \/ \E e \in DOMAIN exports, ok \in BOOLEAN : DeleteResponded(e, ok)

\* selecting text and highlighting while the zoom changes
Next == ZoomSteps \/ SelectionSteps(PageSelections)
Spec == Init /\ [][Next]_vars

\* selecting text, highlighting and erasing
NextHighlight ==
  ToolSteps({"cursor", "ink", "eraser"}) \/ SelectionSteps(Selections) \/ DeleteSteps
SpecHighlight ==
  InitWith({<<>>, LoadedWrapped, LoadedNotes}, {TRUE}) /\ [][NextHighlight]_vars

\* drawing and erasing
NextInk == ToolSteps({"cursor", "ink", "eraser"}) \/ InkSteps \/ DeleteSteps
SpecInk == InitWith({<<>>, LoadedStrokes}, {TRUE}) /\ [][NextInk]_vars

\* drawing strokes, with every pointer-up and pointer-leave the page gets
NextStroke ==
  \/ ToolSteps({"cursor", "ink"})
  \/ InkSteps
  \/ \E p \in Pages : PointerUpIgnored(p)
SpecStroke == Init /\ [][NextStroke]_vars

\* selecting text with one tool or another, on the pages and onto the controls
ControlSteps == \E sel \in PageSelections : ReleaseOnControl(sel[1], sel[2], sel[3])
NextSelect ==
  ToolSteps({"cursor", "ink"}) \/ SelectionSteps(Selections) \/ ControlSteps
SpecSelect == Init /\ [][NextSelect]_vars

\* writing notes and erasing
NextNote == ToolSteps({"cursor", "text", "eraser"}) \/ NoteSteps \/ DeleteSteps
SpecNote ==
  InitWith({<<>>, LoadedWrapped, LoadedNotes, LoadedStrokes}, {TRUE})
    /\ [][NextNote]_vars

\* creating annotations while their saves complete or fail
NextSave ==
  \/ SelectionSteps(PageSelections)
  \/ SaveSteps
  \/ \E i \in DOMAIN annotations : SidebarDelete(i)
SpecSave == InitWith({<<>>, LoadedWrapped}, {TRUE}) /\ [][NextSave]_vars

\* scrolling and zooming while the pages load and render
NextPage == ZoomSteps \/ PageSteps
SpecPage == InitRender /\ [][NextPage]_vars

NextRender == PageSteps
SpecRender == InitRender /\ [][NextRender]_vars

\* opening a Drive file, with the answers Drive may give
LoadSteps ==
  \/ \E status \in HttpStatuses, apiMsg \in ApiMessages :
       DownloadResponded(status, apiMsg)
  \/ \E cw \in ContainerWidths : ParseDone(AutoFitScale(cw))
  \/ ParseDone(AutoFitFallback)
  \/ ParseFailed
  \/ AccessTokenRenewed
SpecLoad == InitLoading /\ [][LoadSteps]_vars

\* loading a document (which sets the auto-fit scale) and zooming in the
\* loaded document, from any scale the buttons lead to
NextZoom ==
  \/ loadPc = "ready" /\ ZoomSteps
  \/ LoadSteps
SpecZoom == (InitZoom \/ InitLoading) /\ [][NextZoom]_vars

\* text layers are built, for text in the fonts of the document
FontSteps ==
  \/ \E raw \in RawFontNames, online \in BOOLEAN : TryAutoDownloadFont(raw, online)
  \/ \E f \in Families : FontLoaded(f)
  \/ \E f \in Families : FontFailed(f)
SpecFont == Init /\ [][FontSteps]_vars

\* exporting to Drive at any zoom
NextExport == ZoomIn \/ ExportSteps
SpecExport ==
  /\ InitWith({LoadedWrapped, LoadedStrokes}, BOOLEAN) \/ InitLoadFailed
  /\ [][NextExport]_vars

----------------------------------------------------------------------------
(* Properties *)

\* scales at which a stored annotation may later be shown
ViewScales == {Rat(1, 2), RInt(1), Rat(3, 2), Rat(17, 10), RInt(4)}

\* C1: every stored annotation holds unit-scale geometry, whatever the scale
\* was when it was created (a highlight's rectangle is the rectangle of a text
\* fragment at scale 1, a note's anchor and an ink point are the point
\* clicked at scale 1), and at any scale s2 it is shown at that geometry
\* multiplied by s2.
C1_StoredGeometryIsUnitScale ==
  \A i \in DOMAIN annotations :
    LET a == annotations[i]
    IN /\ a.type = "highlight" => a.bbox \in Range(UnitRects)
       /\ a.type = "note" => <<a.bbox[1], a.bbox[2]>> \in UnitPoints
       /\ a.type = "ink" => \A k \in DOMAIN a.points : a.points[k] \in UnitPoints
       /\ \A s2 \in ViewScales : OnScreen(a.bbox, s2) = VMul(a.bbox, s2)

\* a delete of record t was requested, with the eraser or from the sidebar
\* (such a step changes nothing but the annotations)
Deletes(t) ==
  /\ UNCHANGED <<activeTool, nextId, domSel, selTimers, selection, isDrawing,
                  currentPoints, draftNote, saveJobs>>
  /\ \/ \E i \in DOMAIN annotations : annotations[i] = t /\ EraserClick(i)
     \/ \E k \in DOMAIN SidebarAnnotations(annotations) :
          SidebarAnnotations(annotations)[k] = t /\ SidebarDelete(k)

\* a highlight or a note whose text has a character that is not a blank
TextBearing(a) ==
  /\ a.type \in {"highlight", "note"}
  /\ a.text # Undefined
  /\ \E k \in DOMAIN a.text : a.text[k] # " "

C3_DeleteHighlightRemovesFragments ==
  [][\A t \in Range(annotations) :
       (t.type = "highlight" /\ TextBearing(t) /\ Deletes(t)) =>
         annotations' = SelectSeq(annotations,
           LAMBDA a : ~(a.type = "highlight" /\ a.page = t.page
                        /\ a.text = t.text))]_vars

\* of a highlight wrapped over two lines and a note with the same text, the
\* note alone is left
C3_Witness == annotations = <<LoadedWrapped[3]>>

\* C4: deleting an ink record removes exactly one record, the one with the
\* target's identifier, and leaves every other record as it is.
C4_DeleteInkRemovesOne ==
  [][\A t \in Range(annotations) :
       (t.type = "ink" /\ Deletes(t)) =>
         /\ Len(annotations') = Len(annotations) - 1
         /\ annotations' = SelectSeq(annotations, LAMBDA a : a.id # t.id)]_vars

\* of two strokes and a highlight, one stroke was erased: the other stroke
\* of the same page and the highlight are left
C4_Witness == annotations = <<LoadedStrokes[2], LoadedStrokes[3]>>

\* C5: the end of a stroke for which fewer than 2 points were captured
\* changes neither the annotations nor the saves under way nor the database.
C5_ShortStrokeAddsNothing ==
  [][\A p \in Pages :
       (isDrawing[p] /\ ~isDrawing'[p] /\ Len(currentPoints[p]) < 2) =>
         UNCHANGED <<annotations, saveJobs, isSaving, db>>]_vars

\* a stroke with one point has just ended
C5_Witness ==
  /\ shortStroke
  /\ \A p \in Pages : ~isDrawing[p] /\ currentPoints[p] = <<>>

\* C6: the digest lists its entries by ascending page and, within a page, by
\* ascending bbox y, and no two entries have the same page, text and kind.
C6_DigestOrderedAndUnique ==
  LET u == UniqueAnnotations(annotations)
      d == FichamentoText(annotations)
  IN /\ DOMAIN d = DOMAIN u
     /\ \A i \in DOMAIN u :
          d[i].text = u[i].text /\ d[i].pagina = u[i].page + PageOffset - 1
     /\ \A i, j \in DOMAIN u :
          i < j => \/ u[i].page < u[j].page
                   \/ /\ u[i].page = u[j].page
                      /\ ~RLt(u[j].bbox[2], u[i].bbox[2])
     /\ \A i, j \in DOMAIN u :
          i # j => ~(/\ u[i].page = u[j].page
                     /\ u[i].text = u[j].text
                     /\ u[i].type = u[j].type)

\* a selection over two lines was highlighted: two records, one digest entry
C6_Witness ==
  /\ \E i, j \in DOMAIN annotations :
       /\ i < j
       /\ annotations[i].id < annotations[j].id
       /\ annotations[j].id <= MaxIds
       /\ annotations[i].type = "highlight" /\ annotations[j].type = "highlight"
       /\ annotations[i].page = annotations[j].page
       /\ annotations[i].text = annotations[j].text
  /\ Len(FichamentoText(annotations)) = 1

\* C7 as stated: for each distinct (page, kind, text) among the highlights
\* and notes with non-blank text there is exactly one digest entry under the
\* page's header.
C7_EntryPerPageKindText ==
  LET d == FichamentoText(annotations)
  IN \A a \in Range(annotations) :
       TextBearing(a) =>
         Cardinality({k \in DOMAIN d :
                        d[k].pagina = a.page + PageOffset - 1
                        /\ d[k].text = a.text})
         = Cardinality({b.type : b \in {c \in Range(annotations) :
                          TextBearing(c) /\ c.page = a.page /\ c.text = a.text}})

\* C7, amended: for each distinct (page, text) among the highlights and notes
\* with non-blank text there is exactly one digest entry, under that page's
\* header; every digest entry is the text of such a record; ink records and
\* records with empty or blank text contribute none.
C7_EntryPerPageText ==
  LET d == FichamentoText(annotations)
  IN /\ \A a \in Range(annotations) :
          TextBearing(a) =>
            Cardinality({k \in DOMAIN d :
                           d[k].pagina = a.page + PageOffset - 1
                           /\ d[k].text = a.text}) = 1
     /\ \A k \in DOMAIN d :
          \E a \in Range(annotations) :
            /\ TextBearing(a)
            /\ d[k].pagina = a.page + PageOffset - 1
            /\ d[k].text = a.text

\* a note written in this session has the page and text of a highlight
C7_Witness ==
  \E i, j \in DOMAIN annotations :
    /\ annotations[i].type = "highlight" /\ annotations[j].type = "note"
    /\ annotations[j].id <= MaxIds
    /\ annotations[i].page = annotations[j].page
    /\ annotations[i].text = annotations[j].text

\* the export has flattened its annotations
Flattened(x) == x.pc \in {"upload", "delete", "done"}

\* C8: an export draws a highlight with unit rectangle (x, y, w, h) on a page
\* of height H at (x, H - y - h) with size (w, h), so (10, 20, 100, 15) on a
\* page of height 800 at y = 765, and a stroke of n points as n - 1 lines
\* that join each point (x, H - y) to the next, whatever the scale is.
C8_ExportFlipsWithoutScaling ==
  \A e \in DOMAIN exports :
    Flattened(exports[e]) =>
      \A i \in DOMAIN exports[e].anns :
        LET a == exports[e].anns[i]
            H == RInt(PageHeights[a.page])
            drawn == exports[e].drawn[i]
        IN /\ a.type = "highlight" =>
                /\ Len(drawn) = 1
                /\ drawn[1].op = "rect" /\ drawn[1].page = a.page
                /\ drawn[1].x = a.bbox[1]
                /\ RAdd(RAdd(drawn[1].y, a.bbox[2]), a.bbox[4]) = H
                /\ drawn[1].width = a.bbox[3] /\ drawn[1].height = a.bbox[4]
                /\ (a.bbox = RVec(<<10, 20, 100, 15>>) /\ H = RInt(800)) =>
                     drawn[1].y = RInt(765)
           /\ a.type = "ink" =>
                /\ Len(drawn) = Len(a.points) - 1
                /\ \A k \in DOMAIN drawn :
                     /\ drawn[k].op = "line" /\ drawn[k].page = a.page
                     /\ drawn[k].start[1] = a.points[k][1]
                     /\ RAdd(drawn[k].start[2], a.points[k][2]) = H
                     /\ drawn[k].end[1] = a.points[k + 1][1]
                     /\ RAdd(drawn[k].end[2], a.points[k + 1][2]) = H

\* after a zoom, an export has drawn the highlight (10, 20, 100, 15) of a
\* page of height 800
C8_Witness ==
  /\ scale # InitialScale
  /\ \E e \in DOMAIN exports :
       /\ Flattened(exports[e])
       /\ \E i \in DOMAIN exports[e].anns :
            /\ exports[e].anns[i].type = "highlight"
            /\ exports[e].anns[i].bbox = RVec(<<10, 20, 100, 15>>)
            /\ PageHeights[exports[e].anns[i].page] = 800
            /\ exports[e].drawn[i] # <<>>

\* C9: an export calls deleteDriveFile only after its uploadFileToDrive has
\* returned, that is after its upload was answered with success: every delete
\* call in the log has the successful answer to the same export's upload
\* before it, and an export whose flattening or upload failed has made no
\* delete call.
C9_DeleteOnlyAfterUpload ==
  /\ \A k \in DOMAIN driveLog :
       driveLog[k].op = "delete" =>
         \E m \in 1..(k - 1) :
           driveLog[m] = [op |-> "uploadResponse", by |-> driveLog[k].by,
                          ok |-> TRUE]
  /\ \A e \in DOMAIN exports :
       (\A m \in DOMAIN driveLog :
          driveLog[m] # [op |-> "uploadResponse", by |-> e, ok |-> TRUE]) =>
         \A k \in DOMAIN driveLog :
           ~(driveLog[k].op = "delete" /\ driveLog[k].by = e)

\* one export has replaced the original, the upload of another has failed
C9_Witness ==
  \E e, f \in DOMAIN exports :
    /\ exports[e].pc = "done"
    /\ exports[f].pc = "failed"
    /\ \E k \in DOMAIN driveLog :
         driveLog[k] = [op |-> "uploadResponse", by |-> f, ok |-> FALSE]
    /\ \E k \in DOMAIN driveLog :
         driveLog[k] = [op |-> "deleteResponse", by |-> e, ok |-> TRUE]

\* C10: a step in which a save fails (and is logged) leaves the annotations
\* of the viewer as they are.
C10_SaveFailureKeepsRecords ==
  [][errLog' # errLog => annotations' = annotations]_vars

\* a save has failed, and a record made in this session is on screen though
\* it is not in the database
C10_Witness ==
  /\ errLog > 0
  /\ saveJobs = <<>>
  /\ \E i \in DOMAIN annotations :
       annotations[i].id <= MaxIds /\ annotations[i] \notin db

\* C11: the text layer, the has-text report and the rendered flag of a page
\* are written only by the render issued last for that page: a render whose
\* effect was cleaned up before it finished writes nothing.
C11_OnlyLastRenderCommits ==
  [][\A p \in Pages :
       (\/ textLayerBy'[p] # textLayerBy[p]
        \/ hasText'[p] # hasText[p]
        \/ rendered'[p] # rendered[p]) =>
         /\ textLayerBy'[p] # textLayerBy[p]
         /\ textLayerBy'[p] = rasterCount[p]
         /\ \A i \in DOMAIN runs'[p] : ~runs'[p][i].active]_vars

\* a second render of a page was issued while the first, cleaned up, still
\* waits for the page's text
C11_Witness ==
  \E p \in Pages : \E i, j \in DOMAIN runs[p] :
    /\ runs[p][i].id = 1 /\ ~runs[p][i].active /\ runs[p][i].pc = "text"
    /\ runs[p][j].id = 2 /\ runs[p][j].active

\* C12 as stated: deleting a note with text removes every note of the same
\* page whose text equals the target's.
C12_DeleteNoteRemovesSameText ==
  [][\A t \in Range(annotations) :
       (t.type = "note" /\ TextBearing(t) /\ Deletes(t)) =>
         annotations' = SelectSeq(annotations,
           LAMBDA a : ~(a.type = "note" /\ a.page = t.page
                        /\ a.text = t.text))]_vars

\* C12, amended: deleting a note removes exactly one record, the one with
\* the target's identifier; another note of the same page with the same text
\* stays.
C12_DeleteNoteRemovesOne ==
  [][\A t \in Range(annotations) :
       (t.type = "note" /\ Deletes(t)) =>
         /\ Len(annotations') = Len(annotations) - 1
         /\ annotations' = SelectSeq(annotations, LAMBDA a : a.id # t.id)]_vars

\* of two notes with the same text on one page, the loaded one was deleted and
\* the one written in this session is left
C12_Witness ==
  annotations = << LoadedWrapped[1], LoadedWrapped[2],
                   NoteAnn(1, 1, PointB[1], PointB[2], <<"a">>) >>

\* ann.id.startsWith('temp'): the identifiers the handlers of this session
\* made (temp-hl-.., temp-note-.., temp-..) are the numbers below nextId
IsTemp(id) == id \in 1..(nextId - 1)

\* C13: when saveAnnotation succeeds for a record that was added with a
\* tentative identifier, the record in memory no longer carries the
\* tentative identifier, and the store keeps its length and every record its
\* place and content (everything but the identifier).
C13_SavedRecordGetsDurableId ==
  [][\A j \in DOMAIN saveJobs :
       (/\ errLog' = errLog
        /\ IsTemp(Head(saveJobs[j]).id)
        /\ SaveOk(j)) =>
         /\ \A a \in Range(annotations') : a.id # Head(saveJobs[j]).id
         /\ Len(annotations') = Len(annotations)
         /\ \A i \in DOMAIN annotations :
              [annotations'[i] EXCEPT !.id = 0] =
                [annotations[i] EXCEPT !.id = 0]]_vars

\* the sidebar list is in page order and, within a page, in the order of
\* bbox y; it lists records of the store only, and every ink record and
\* every record without text exactly once
SidebarOrderedWithAllInk ==
  LET s == SidebarAnnotations(annotations)
  IN /\ \A i, j \in DOMAIN s :
          i < j => \/ s[i].page < s[j].page
                   \/ /\ s[i].page = s[j].page
                      /\ ~RLt(s[j].bbox[2], s[i].bbox[2])
     /\ Range(s) \subseteq Range(annotations)
     /\ \A a \in Range(annotations) :
          (a.type = "ink" \/ Falsy(a.text)) =>
            Cardinality({k \in DOMAIN s : s[k] = a}) = 1

\* the entries of the sidebar list that have page pg and text t
SidebarEntries(pg, t) ==
  LET s == SidebarAnnotations(annotations)
  IN {k \in DOMAIN s : s[k].type # "ink" /\ s[k].page = pg /\ s[k].text = t}

\* C14 as stated: the sidebar list is ordered by page and then by vertical
\* position, has every ink record and every record without text, and has
\* exactly one entry for each distinct (page, kind, text) among the records
\* with text.
C14_SidebarEntryPerPageKindText ==
  /\ SidebarOrderedWithAllInk
  /\ \A a \in Range(annotations) :
       (a.type # "ink" /\ ~Falsy(a.text)) =>
         Cardinality(SidebarEntries(a.page, a.text))
         = Cardinality({b.type : b \in {c \in Range(annotations) :
                          c.type # "ink" /\ c.page = a.page /\ c.text = a.text}})

\* C14, amended: the sidebar list is ordered by page and then by bbox y, has
\* every ink record and every record without text, and has exactly one entry
\* for each distinct (page, text) among the highlights and notes with text,
\* whatever their kinds.
C14_SidebarEntryPerPageText ==
  /\ SidebarOrderedWithAllInk
  /\ \A a \in Range(annotations) :
       (a.type # "ink" /\ ~Falsy(a.text)) =>
         Cardinality(SidebarEntries(a.page, a.text)) = 1

\* a note written in this session has the page and text of a highlight, and
\* the sidebar list has one entry for the two
C14_Witness ==
  \E i, j \in DOMAIN annotations :
       /\ annotations[i].type = "highlight" /\ annotations[j].type = "note"
       /\ annotations[j].id <= MaxIds
       /\ annotations[i].page = annotations[j].page
       /\ annotations[i].text = annotations[j].text
       /\ Cardinality(SidebarEntries(annotations[i].page, annotations[i].text)) = 1
       /\ Len(SidebarAnnotations(annotations)) < Len(annotations)

\* C15: committing a selection with n captured rectangles appends exactly n
\* highlight records to the store, in rectangle order, all with the
\* selection's page, text, colour and opacity, the i-th with the i-th captured
\* rectangle as geometry, which is the unit-scale rectangle of the i-th
\* selected fragment; afterwards the selection state is cleared.  (The commit
\* is the step that takes new identifiers while a selection is shown.)
C15_CommitAddsRecordPerRectangle ==
  [][(selection # Null /\ nextId' # nextId) =>
       LET n == Len(selection.relativeRects)
           old == Len(annotations)
       IN /\ Len(annotations') = old + n
          /\ SubSeq(annotations', 1, old) = annotations
          /\ \A i \in 1..n :
               LET a == annotations'[old + i]
               IN /\ a.type = "highlight"
                  /\ a.page = selection.page
                  /\ a.text = selection.text
                  /\ a.color = HighlightColor
                  /\ a.opacity = HighlightOpacity
                  /\ a.bbox = selection.relativeRects[i]
                  /\ \E sel \in PageSelections :
                       /\ sel[1] = selection.page
                       /\ Len(sel[3]) = n
                       /\ a.bbox = sel[3][i]
          /\ selection' = Null]_vars

\* C16: a selection-end event leads to a selection state (page, text,
\* rectangles, popup placement) only if the tool was the cursor tool when the
\* event arrived and the event's target was outside the UI controls (only
\* such events schedule the measurement), and only if the measurement finds a
\* selection that is not collapsed, has text left after trimming and lies on
\* a page; no other step makes a selection state.
C16_SelectionOnlyFromCursorEvents ==
  /\ [][Len(selTimers') > Len(selTimers) => activeTool = "cursor"]_vars
  /\ [](\A k \in DOMAIN selTimers :
          selTimers[k].tool = "cursor" /\ ~selTimers[k].inControl)
  /\ [][(selection' # selection /\ selection' # Null) =>
          /\ selTimers # <<>>
          /\ selTimers' = Tail(selTimers)
          /\ domSel # Null
          /\ Len(Trim(domSel.raw)) > 0
          /\ domSel.page \in Pages
          /\ domSel.frags # <<>>
          /\ selection'.page = domSel.page
          /\ selection'.text = Trim(domSel.raw)
          /\ Len(selection'.relativeRects) = Len(domSel.frags)
          /\ selection'.position \in {"top", "bottom"}]_vars

\* a selection state for page 1 is shown, then text of page 2 was selected in
\* an event the handler ignored: no measurement is pending and the selection
\* state is still that of page 1
C16_Witness ==
  /\ selection # Null
  /\ selection.page = 1
  /\ domSel # Null
  /\ domSel.page = 2
  /\ domSel.frags # <<>>
  /\ selTimers = <<>>

\* the text is empty or has blanks only
Blank(t) == \A k \in DOMAIN t : t[k] = " "

\* C17: a draft is open only with the text tool; committing a draft whose text
\* is not blank appends exactly one note record, on the draft's page, at the
\* draft's anchor, which is the clicked point at unit scale, with the draft's
\* text, and starts one persistence call for it; cancelling a draft, or
\* committing a blank one, leaves the store unchanged and starts no
\* persistence call; in every case the draft is closed afterwards.
C17_DraftCommitAddsOneNote ==
  /\ [](\A p \in Pages : draftNote[p] # Null => activeTool = "text")
  /\ [][\A p \in Pages :
          (draftNote[p] # Null /\ draftNote'[p] = Null /\ SaveDraftNote(p)) =>
            IF Blank(draftNote[p].text)
              THEN UNCHANGED <<annotations, saveJobs, isSaving, db>>
              ELSE /\ Len(annotations') = Len(annotations) + 1
                   /\ SubSeq(annotations', 1, Len(annotations)) = annotations
                   /\ LET a == annotations'[Len(annotations')]
                      IN /\ a.type = "note"
                         /\ a.page = p
                         /\ a.text = draftNote[p].text
                         /\ a.bbox = <<draftNote[p].x, draftNote[p].y,
                                       RInt(0), RInt(0)>>
                         /\ <<a.bbox[1], a.bbox[2]>> \in NotePoints
                         /\ saveJobs' = Append(saveJobs, <<a>>)]_vars
  /\ [][\A p \in Pages :
          (draftNote[p] # Null /\ (SaveDraftNote(p) \/ CancelDraft(p))) =>
            draftNote'[p] = Null]_vars
  /\ [][\A p \in Pages :
          (draftNote[p] # Null /\ draftNote'[p] = Null /\ CancelDraft(p)) =>
            UNCHANGED <<annotations, saveJobs, isSaving, db>>]_vars

\* a note was written in this session at a clicked point: the tool is the
\* cursor again, no draft is open and the save of the note is on its way
C17_Witness ==
  /\ activeTool = "cursor"
  /\ \A p \in Pages : draftNote[p] = Null
  /\ \E i \in DOMAIN annotations :
       /\ annotations[i].type = "note"
       /\ annotations[i].id <= MaxIds
       /\ <<annotations[i]>> \in Range(saveJobs)

\* the export went past the guards and the confirmation
Proceeded(x) == x.pc \notin {"refused", "declined"}

\* C18: an export proceeds (flatten, upload, delete of the original) only
\* when an access token and the original bytes are both there and the user
\* confirmed: an export that was refused or declined stays as it is, every
\* call of uploadFileToDrive and deleteDriveFile is made by an export that
\* proceeded, without token or bytes no such call is ever made and the
\* viewer is neither exporting nor closed, and no step of an export changes
\* the annotation store.
C18_ExportOnlyWithTokenAndBytes ==
  /\ [](\A e \in DOMAIN exports :
          Proceeded(exports[e]) => hasToken /\ hasBlob)
  /\ [](\A k \in DOMAIN driveLog : Proceeded(exports[driveLog[k].by]))
  /\ []((~hasToken \/ ~hasBlob) =>
          driveLog = <<>> /\ ~isExporting /\ ~closed)
  /\ [][\A e \in DOMAIN exports :
          ~Proceeded(exports[e]) => exports'[e] = exports[e]]_vars
  /\ [][(exports' # exports \/ driveLog' # driveLog) =>
          annotations' = annotations]_vars

\* the "Salvar" button was pressed twice without a token or without the
\* bytes: both exports were refused and Drive was never called
C18_Witness ==
  /\ ~hasToken \/ ~hasBlob
  /\ Len(exports) >= 2
  /\ \A e \in DOMAIN exports : exports[e].pc = "refused"
  /\ driveLog = <<>>

\* downloadDriveFile calls made so far
DownloadsIssued == Len(downloadLog) + (IF loadPc = "download" THEN 1 ELSE 0)

\* C19: when the download of the document fails with HTTP 401 and the parent
\* passed onAuthError, the viewer calls onAuthError (once, and shows no alert
\* of its own), and it never downloads again on its own: the downloads made
\* are at most one more than the access tokens the parent has renewed.
C19_UnauthorizedCallsOnAuthError ==
  /\ [][(/\ Len(downloadLog') > Len(downloadLog)
         /\ downloadLog'[Len(downloadLog')].status = 401
         /\ onAuthErrorGiven) =>
          /\ authErrors' = authErrors + 1
          /\ alerts' = alerts]_vars
  /\ [](DownloadsIssued <= 1 + renewals)

\* C20: a font-substitution fetch (a stylesheet link appended to the head) is
\* issued at most once per font family, however many text items name that
\* family, and never for a font whose name, once quotes and subset prefix
\* are taken off, matches a name of the list of system fonts; a fetch that
\* fails removes its link and changes nothing else, and its family stays
\* among the attempted ones, so it is not fetched again.
C20_FontFetchedOncePerFamily ==
  /\ [](\A i, j \in DOMAIN fontFetches :
          i # j => fontFetches[i].family # fontFetches[j].family)
  /\ [](\A i \in DOMAIN fontFetches :
          ~InSkipList(CleanName(fontFetches[i].raw)))
  /\ [][\A f \in Families :
          (headLinks[f] = "loading" /\ headLinks'[f] = "removed") =>
            /\ UNCHANGED <<attemptedFonts, fontFetches>>
            /\ \A g \in Families \ {f} : headLinks'[g] = headLinks[g]]_vars
  /\ [](\A f \in Families : headLinks[f] # "none" => f \in attemptedFonts)

InFlight(p) ==
  {i \in DOMAIN runs[p] : runs[p][i].pc = "raster" /\ runs[p][i].st = "running"}

\* C21: no page ever has two rasterization tasks in flight (started, neither
\* completed nor cancelled), whatever the order of visibility changes, page
\* arrivals and render completions.
C21_OneRasterInFlightPerPage ==
  \A p \in Pages : Cardinality(InFlight(p)) <= 1

\* a page was rasterized anew while the run of its cancelled task has not yet
\* returned, and the rasterization of another page is in flight as well
C21_Witness ==
  \E p, q \in Pages :
    /\ p # q
    /\ InFlight(p) # {} /\ InFlight(q) # {}
    /\ \E i \in DOMAIN runs[p] :
         runs[p][i].pc = "raster" /\ runs[p][i].st = "cancelled"

\* C22: a render that ends because it was cancelled (its page lost visibility
\* or a new render was triggered) is discarded silently: the step that cancels
\* a running task throws no error, so nothing is logged and the viewer is not
\* replaced by an error state.
C22_CancelledRenderIsSilent ==
  [][\A p \in Pages : \A i \in DOMAIN runs[p] :
       (/\ runs[p][i].st = "running"
        /\ i \in DOMAIN runs'[p]
        /\ runs'[p][i].st = "cancelled") => ~cleanupThrew']_vars

\* handlePointerUp runs on page p in this step
StrokeEnds(p) ==
  \/ isDrawing[p] /\ ~isDrawing'[p]
  \/ ~endIgnored[p] /\ endIgnored'[p]

\* C23: the end of a stroke with at least 2 captured points (a pointer-up or
\* pointer-leave on its page) adds exactly one ink record, of that page, with
\* the captured points in capture order and the current ink style; any other
\* end event (the pointer-leave after the pointer-up, the end of a shorter
\* stroke) adds nothing; and after every end event the capture buffer is empty
\* and drawing is off.
C23_StrokeCommitsOnce ==
  [][\A p \in Pages :
       StrokeEnds(p) =>
         /\ IF Len(currentPoints[p]) >= 2
              THEN annotations' =
                     Append(annotations, InkAnn(nextId, p, currentPoints[p]))
              ELSE annotations' = annotations
         /\ currentPoints'[p] = <<>>
         /\ ~isDrawing'[p]]_vars

\* C24: a record that a deletion removes from the in-memory annotations is not
\* in the local store afterwards either, so that loadAnnotations, which
\* returns the records of the store, does not return it when the document is
\* opened again.
C24_DeletedRecordIsNotLoadedAgain ==
  [][\A t \in Range(annotations) :
       (Len(annotations') < Len(annotations) /\ t \notin Range(annotations')) =>
         t \notin db']_vars

\* C25: the failure of one saveAnnotation call leaves every record for which
\* saveAnnotation has not yet been called waiting for its own call: the records
\* behind the first of each list being saved are still in a list afterwards.
C25_SaveAttemptedPerRecord ==
  [][errLog' # errLog =>
       \A j \in DOMAIN saveJobs : \A k \in 2..Len(saveJobs[j]) :
         \E i \in DOMAIN saveJobs' : saveJobs[j][k] \in Range(saveJobs'[i])]_vars

\* C26: a rasterization starts for a page only in a step after which the page
\* is flagged visible and has its page handle (so a page that was never
\* visible is never rasterized), and a step in which a page loses visibility
\* keeps its page handle and the annotations: the handle and the list are
\* unchanged and the viewer that holds them stays mounted.
C26_RasterOnlyWhenVisibleAndFetched ==
  [][\A p \in Pages :
       /\ rasterCount'[p] # rasterCount[p] =>
            isVisible'[p] /\ pageFetch'[p] = "ready"
       /\ (isVisible[p] /\ ~isVisible'[p]) =>
            /\ pageFetch'[p] = pageFetch[p]
            /\ annotations' = annotations
            /\ ~cleanupThrew']_vars

\* handleSaveToDrive calls that are flattening, uploading or deleting
ExportsInFlight ==
  {e \in DOMAIN exports : exports[e].pc \in {"load", "upload", "delete"}}

\* C27: at most one export is in flight at any time: while a handleSaveToDrive
\* call has not finished its flatten, upload and delete, no second call gets
\* to flatten, upload or delete.
C27_OneExportInFlight == Cardinality(ExportsInFlight) <= 1

\* C28: when the deferred callback of a selection-end event measures the
\* selection's rectangles, the scale it divides them by is the scale in effect
\* at that moment, also after a zoom between the event and the callback, so
\* the rectangles it stores are the unit-scale rectangles of the fragments.
C28_MeasuredAtCurrentScale ==
  [][(/\ selTimers # <<>>
      /\ selTimers' = Tail(selTimers)
      /\ domSel # Null
      /\ selection' # Null
      /\ selection' # selection) =>
        /\ Head(selTimers).scale = scale
        /\ selection'.relativeRects = domSel.frags]_vars

\* C29: when the parent passes a new access token while the document is
\* loaded, no download and no decoding starts (the load effect stays where it
\* is and the viewer does not go back to loading), and the annotations, the
\* pages with their handles and the scale are what they were.
C29_TokenRenewalKeepsDocument ==
  [][(renewals' # renewals /\ loadPc = "ready") =>
       /\ loadPc' = "ready" /\ ~loading'
       /\ downloadLog' = downloadLog
       /\ annotations' = annotations
       /\ scale' = scale
       /\ UNCHANGED <<pageVars, hasBlob>>]_vars

\* the token was renewed twice while the document, downloaded once and
\* decoded without a failure, was shown
C29_Witness ==
  /\ loadPc = "ready"
  /\ renewals = 2
  /\ alerts = 0
  /\ Len(downloadLog) = 1
  /\ hasBlob

====
